---- MODULE Spec2Model ----
(***************************************************************************)
(* CarScratch: the vehicle-information aggregator (src/lib/aggregator.ts)  *)
(* with its plate classifier (src/lib/iom-detector.ts) and the fetchers it *)
(* dispatches (dvla.ts, mock-data.ts, scraper.ts, iom-scraper.ts).         *)
(*                                                                         *)
(* A string is a sequence of one-character strings.  An optional value     *)
(* (T | null | undefined) is <<>> when absent and <<v>> when present.  A   *)
(* JavaScript object is a record; reading a property the object lacks      *)
(* gives undefined (Get).                                                  *)
(***************************************************************************)
EXTENDS Integers, Sequences, FiniteSets, TLC

None == <<>>

Some(v) == <<v>>

\* obj.f of JavaScript: undefined when the object has no such property
Get(obj, f) == IF f \in DOMAIN obj THEN obj[f] ELSE None

Min(a, b) == IF a < b THEN a ELSE b

(***************************************************************************)
(* Characters and strings                                                  *)
(***************************************************************************)
LowerSeq == <<"a","b","c","d","e","f","g","h","i","j","k","l","m",
              "n","o","p","q","r","s","t","u","v","w","x","y","z">>

UpperSeq == <<"A","B","C","D","E","F","G","H","I","J","K","L","M",
              "N","O","P","Q","R","S","T","U","V","W","X","Y","Z">>

Letters == {UpperSeq[i] : i \in DOMAIN UpperSeq}

Digits == {"0","1","2","3","4","5","6","7","8","9"}

\* the characters /\s/ matches, among those the inputs use
Whitespace == {" ", "\t"}

toUpperChar(c) ==
  IF \E i \in DOMAIN LowerSeq : LowerSeq[i] = c
  THEN UpperSeq[CHOOSE i \in DOMAIN LowerSeq : LowerSeq[i] = c]
  ELSE c

\* String.prototype.toUpperCase
toUpperCase(s) == [i \in 1..Len(s) |-> toUpperChar(s[i])]

toLowerChar(c) ==
  IF \E i \in DOMAIN UpperSeq : UpperSeq[i] = c
  THEN LowerSeq[CHOOSE i \in DOMAIN UpperSeq : UpperSeq[i] = c]
  ELSE c

\* String.prototype.toLowerCase
toLowerCase(s) == [i \in 1..Len(s) |-> toLowerChar(s[i])]

\* String.prototype.includes
includes(s, word) ==
  \E i \in 1..(Len(s) - Len(word) + 1) : SubSeq(s, i, i + Len(word) - 1) = word

\* s.replace(/\s/g, '')
StripWhitespace(s) == SelectSeq(s, LAMBDA c : c \notin Whitespace)

RECURSIVE DropLeading(_, _)
DropLeading(s, cls) ==
  IF s # <<>> /\ Head(s) \in cls THEN DropLeading(Tail(s), cls) ELSE s

RECURSIVE DropTrailing(_, _)
DropTrailing(s, cls) ==
  IF s # <<>> /\ s[Len(s)] \in cls
  THEN DropTrailing(SubSeq(s, 1, Len(s) - 1), cls) ELSE s

\* String.prototype.trim
trim(s) == DropTrailing(DropLeading(s, Whitespace), Whitespace)

\* s.replace(/[\s-]+/g, rep): every maximal run of whitespace and hyphens
\* becomes rep
RECURSIVE ReplaceSeparators(_, _)
ReplaceSeparators(s, rep) ==
  IF s = <<>> THEN <<>>
  ELSE IF Head(s) \in Whitespace \cup {"-"}
       THEN rep \o ReplaceSeparators(DropLeading(s, Whitespace \cup {"-"}), rep)
       ELSE <<Head(s)>> \o ReplaceSeparators(Tail(s), rep)

(***************************************************************************)
(* Anchored regular expressions (^...$): a sequence of items, each a       *)
(* character class with a repetition range.  many = TRUE is an unbounded   *)
(* upper limit.  The patterns carry the /i flag and are applied to         *)
(* upper-cased text, so a class of upper-case letters is the class [A-Z]   *)
(* under /i.                                                               *)
(***************************************************************************)
Rep(cls, lo, hi) == [cls |-> cls, lo |-> lo, hi |-> hi, many |-> FALSE]

One(cls) == Rep(cls, 1, 1)

Opt(cls) == Rep(cls, 0, 1)

Star(cls) == [cls |-> cls, lo |-> 0, hi |-> 0, many |-> TRUE]

Plus(cls) == [cls |-> cls, lo |-> 1, hi |-> 0, many |-> TRUE]

Lit(c) == One({c})

RECURSIVE MatchFrom(_, _, _, _)
MatchFrom(re, i, s, j) ==
  IF i > Len(re) THEN j = Len(s) + 1
  ELSE LET rest == Len(s) - j + 1
           top  == IF re[i].many THEN rest ELSE Min(re[i].hi, rest)
       IN  \E k \in re[i].lo .. top :
             /\ \A m \in j .. (j + k - 1) : s[m] \in re[i].cls
             /\ MatchFrom(re, i + 1, s, j + k)

\* RegExp.prototype.test for an anchored pattern; the subject string is
\* evaluated once, before matching starts
RegexTest(re, s) == \E subject \in {s} : MatchFrom(re, 1, subject, 1)

(***************************************************************************)
(* iom-detector.ts                                                         *)
(***************************************************************************)
IOM_PATTERNS == <<
  \* /^([A-Z])MN\s*\d+\s*[A-Z]?$/i
  <<One(Letters), Lit("M"), Lit("N"), Star(Whitespace), Plus(Digits),
    Star(Whitespace), Opt(Letters)>>,
  \* /^MAN\s*\d+\s*[A-Z]?$/i
  <<Lit("M"), Lit("A"), Lit("N"), Star(Whitespace), Plus(Digits),
    Star(Whitespace), Opt(Letters)>>,
  \* /^MANX\s*\d+\s*[A-Z]?$/i
  <<Lit("M"), Lit("A"), Lit("N"), Lit("X"), Star(Whitespace), Plus(Digits),
    Star(Whitespace), Opt(Letters)>>,
  \* /^\d+-MN-\d+$/i
  <<Plus(Digits), Lit("-"), Lit("M"), Lit("N"), Lit("-"), Plus(Digits)>>,
  \* /^[A-Z]{1,2}MN\s*\d+\s*[A-Z]?$/i
  <<Rep(Letters, 1, 2), Lit("M"), Lit("N"), Star(Whitespace), Plus(Digits),
    Star(Whitespace), Opt(Letters)>> >>

isManxPlate(registration) ==
  LET normalized == trim(ReplaceSeparators(toUpperCase(registration), <<" ">>))
  IN  \E p \in DOMAIN IOM_PATTERNS :
        \/ RegexTest(IOM_PATTERNS[p], normalized)
        \/ RegexTest(IOM_PATTERNS[p], StripWhitespace(normalized))

(***************************************************************************)
(* Plates and raw inputs                                                   *)
(***************************************************************************)
AB12CDE == <<"A","B","1","2","C","D","E">>

BD19XYZ == <<"B","D","1","9","X","Y","Z">>

YH65ABC == <<"Y","H","6","5","A","B","C">>

WR71DEF == <<"W","R","7","1","D","E","F">>

MK08GHI == <<"M","K","0","8","G","H","I">>

ZZ99ZZZ == <<"Z","Z","9","9","Z","Z","Z">>

\* the raw strings a caller passes to getVehicleInfo
RawInputs == {
  <<>>,
  <<" ">>,
  <<"a">>,
  <<" ","a","\t">>,
  <<"M","N">>,
  AB12CDE,
  <<"a","b","1","2"," ","c","d","e">>,
  ZZ99ZZZ,
  <<"P","M","N"," ","1","4","7"," ","E">>,
  <<"p","m","n","1","4","7","e">>,
  <<"M","A","N"," ","1","2","3">>,
  <<"M","A","N","X","-","2">>,
  <<"1","-","M","N","-","0","0">> }

\* the values gov.im shows as "Previous Registration Number"
PreviousRegistrations == {
  <<"A","B","1","2"," ","C","D","E">>,
  <<"z","z","9","9","z","z","z">>,
  <<"N","/","A">>,
  <<"M","A","N"," ","1","2","3">> }

(***************************************************************************)
(* aggregator.ts: sanitizeUKRegistration                                   *)
(***************************************************************************)
ukPatterns == <<
  \* /^[A-Z]{2}\d{2}[A-Z]{3}$/
  <<Rep(Letters, 2, 2), Rep(Digits, 2, 2), Rep(Letters, 3, 3)>>,
  \* /^[A-Z]\d{1,3}[A-Z]{3}$/
  <<One(Letters), Rep(Digits, 1, 3), Rep(Letters, 3, 3)>>,
  \* /^[A-Z]{3}\d{1,3}[A-Z]$/
  <<Rep(Letters, 3, 3), Rep(Digits, 1, 3), One(Letters)>>,
  \* /^[A-Z]{1,3}\d{1,4}$/
  <<Rep(Letters, 1, 3), Rep(Digits, 1, 4)>>,
  \* /^\d{1,4}[A-Z]{1,3}$/
  <<Rep(Digits, 1, 4), Rep(Letters, 1, 3)>> >>

\* mutant: the plate is returned without the display space
sanitizeUKRegistration_NoSpace(value) ==
  IF value = None \/ value[1] = <<>> THEN None
  ELSE IF \E p \in DOMAIN ukPatterns :
            RegexTest(ukPatterns[p], StripWhitespace(toUpperCase(trim(value[1]))))
       THEN Some(StripWhitespace(toUpperCase(trim(value[1]))))
       ELSE None

\* value: an optional string; the result is an optional string
sanitizeUKRegistration(value) ==
  IF value = None \/ value[1] = <<>> THEN None
  ELSE LET trimmed == StripWhitespace(toUpperCase(trim(value[1])))
       IN  IF RegexTest(<<Lit("N"), Opt({"/"}), Lit("A")>>, trimmed) THEN None
           ELSE IF \E p \in DOMAIN ukPatterns : RegexTest(ukPatterns[p], trimmed)
                THEN IF Len(trimmed) > 4
                     THEN Some(SubSeq(trimmed, 1, 4) \o <<" ">>
                               \o SubSeq(trimmed, 5, Len(trimmed)))
                     ELSE Some(trimmed)
                ELSE None

(***************************************************************************)
(* aggregator.ts: sanitizeScrapedString, sanitizeInsuranceGroup,           *)
(* sanitizePrice                                                           *)
(***************************************************************************)
\* a pattern that is a literal text
LitSeq(text) == [i \in 1..Len(text) |-> Lit(text[i])]

\* RegExp.prototype.test for an unanchored pattern whose matches all have
\* the length of the pattern
RegexSearch(re, s) ==
  \E i \in 1..(Len(s) - Len(re) + 1) : RegexTest(re, SubSeq(s, i, i + Len(re) - 1))

\* the patterns carry /i (but for /^-$/ and /^\s*$/, which have no letters)
\* and are applied to upper-cased text
garbagePatterns == <<
  \* /^n\/?a$/i
  [re |-> <<Lit("N"), Opt({"/"}), Lit("A")>>, anchored |-> TRUE],
  \* /^-$/
  [re |-> <<Lit("-")>>, anchored |-> TRUE],
  \* /^unknown$/i
  [re |-> LitSeq(<<"U","N","K","N","O","W","N">>), anchored |-> TRUE],
  \* /^not available$/i
  [re |-> LitSeq(<<"N","O","T"," ","A","V","A","I","L","A","B","L","E">>), anchored |-> TRUE],
  \* /company offers/i
  [re |-> LitSeq(<<"C","O","M","P","A","N","Y"," ","O","F","F","E","R","S">>), anchored |-> FALSE],
  \* /settlement figure/i
  [re |-> LitSeq(<<"S","E","T","T","L","E","M","E","N","T"," ","F","I","G","U","R","E">>), anchored |-> FALSE],
  \* /click here/i
  [re |-> LitSeq(<<"C","L","I","C","K"," ","H","E","R","E">>), anchored |-> FALSE],
  \* /learn more/i
  [re |-> LitSeq(<<"L","E","A","R","N"," ","M","O","R","E">>), anchored |-> FALSE],
  \* /^\s*$/
  [re |-> <<Star(Whitespace)>>, anchored |-> TRUE] >>

\* mutant: the length is not checked
TooLong_Never(trimmed, maxLength) == FALSE

\* trimmed.length > maxLength
TooLong(trimmed, maxLength) == Len(trimmed) > maxLength

\* value: an optional string; the result is an optional string
sanitizeScrapedString(value, maxLength) ==
  IF value = None \/ value[1] = <<>> THEN None
  ELSE LET trimmed == trim(value[1])
           upper   == toUpperCase(trimmed)
       IN  IF trimmed = <<>> THEN None
           \* /<[^>]*>/.test(trimmed) || /[<>"]/.test(trimmed): every match of
           \* the first pattern holds a character of the second
           ELSE IF \E i \in DOMAIN trimmed : trimmed[i] \in {"<", ">", "\""} THEN None
           ELSE IF TooLong(trimmed, maxLength) THEN None
           ELSE IF \E g \in DOMAIN garbagePatterns :
                     IF garbagePatterns[g].anchored
                     THEN RegexTest(garbagePatterns[g].re, upper)
                     ELSE RegexSearch(garbagePatterns[g].re, upper)
                THEN None
           ELSE Some(trimmed)

\* the default of the maxLength parameter
DefaultMaxLength == 100

\* a word character of /\b/
WordChars == Letters \cup {LowerSeq[i] : i \in DOMAIN LowerSeq} \cup Digits \cup {"_"}

\* /\b/ between s[i-1] and s[i]
WordBoundary(s, i) ==
  LET before == i > 1 /\ s[i - 1] \in WordChars
      after  == i <= Len(s) /\ s[i] \in WordChars
  IN  before # after

\* the lengths k of the matches of /\b(\d{1,2})\b/ that start at s[i]
StandaloneNumberAt(s, i) ==
  { k \in 1..2 : /\ i + k - 1 <= Len(s)
                 /\ \A m \in i..(i + k - 1) : s[m] \in Digits
                 /\ WordBoundary(s, i)
                 /\ WordBoundary(s, i + k) }

DigitSeq == <<"0","1","2","3","4","5","6","7","8","9">>

DigitValue(c) == (CHOOSE i \in DOMAIN DigitSeq : DigitSeq[i] = c) - 1

\* parseInt of a string of decimal digits
RECURSIVE parseInt(_)
parseInt(s) ==
  IF s = <<>> THEN 0
  ELSE 10 * parseInt(SubSeq(s, 1, Len(s) - 1)) + DigitValue(s[Len(s)])

\* the largest insurance group the number fallback lets through
MaxInsuranceGroup == 50

\* mutant: any embedded number is let through
sanitizeInsuranceGroup_AnyNumber(value) ==
  IF value = None \/ value[1] = <<>> THEN None
  ELSE LET trimmed == trim(value[1])
           starts  == {i \in DOMAIN trimmed : StandaloneNumberAt(trimmed, i) # {}}
       IN  IF RegexTest(<<Rep(Digits, 1, 2), Opt(Letters)>>, toUpperCase(trimmed))
           THEN Some(toUpperCase(trimmed))
           ELSE IF starts = {} THEN None
           ELSE LET i == CHOOSE i \in starts : \A j \in starts : i <= j
                    k == CHOOSE k \in StandaloneNumberAt(trimmed, i) :
                           \A l \in StandaloneNumberAt(trimmed, i) : l <= k
                IN  Some(SubSeq(trimmed, i, i + k - 1))

\* value: an optional string; the result is an optional string
sanitizeInsuranceGroup(value) ==
  IF value = None \/ value[1] = <<>> THEN None
  ELSE LET trimmed == trim(value[1])
           \* trimmed.match(/\b(\d{1,2})\b/): the leftmost match, the longest
           \* at that place
           starts  == {i \in DOMAIN trimmed : StandaloneNumberAt(trimmed, i) # {}}
       IN  \* /^(\d{1,2}[A-Z]?)$/i
           IF RegexTest(<<Rep(Digits, 1, 2), Opt(Letters)>>, toUpperCase(trimmed))
           THEN Some(toUpperCase(trimmed))
           ELSE IF starts = {} THEN None
           ELSE LET i == CHOOSE i \in starts : \A j \in starts : i <= j
                    k == CHOOSE k \in StandaloneNumberAt(trimmed, i) :
                           \A l \in StandaloneNumberAt(trimmed, i) : l <= k
                    numMatch == SubSeq(trimmed, i, i + k - 1)
                IN  IF parseInt(numMatch) <= MaxInsuranceGroup
                    THEN Some(numMatch) ELSE None

\* the longest price text that is let through
MaxPriceLength == 20

\* mutant: the text is returned as it was trimmed
sanitizePrice_Uncleaned(value) ==
  IF value = None \/ value[1] = <<>> THEN None
  ELSE LET trimmed == trim(value[1])
       IN  IF /\ \E i \in DOMAIN trimmed : trimmed[i] \in Digits \cup {","}
              /\ ~\E i \in DOMAIN trimmed : trimmed[i] = "<"
              /\ Len(SelectSeq(trimmed, LAMBDA c : c \notin {"<", ">"})) <= MaxPriceLength
           THEN Some(trimmed) ELSE None

\* value: an optional string; the result is an optional string
sanitizePrice(value) ==
  IF value = None \/ value[1] = <<>> THEN None
  ELSE LET trimmed == trim(value[1])
           \* trimmed.replace(/[<>]/g, '')
           cleaned == SelectSeq(trimmed, LAMBDA c : c \notin {"<", ">"})
       IN  \* /[£$€]?\s*[\d,]+/ finds a match exactly when the text holds a
           \* digit or a comma
           IF /\ \E i \in DOMAIN trimmed : trimmed[i] \in Digits \cup {","}
              /\ ~\E i \in DOMAIN trimmed : trimmed[i] = "<"
              /\ Len(cleaned) <= MaxPriceLength
           THEN Some(cleaned) ELSE None

(***************************************************************************)
(* The upstream services, as the fetchers see them during one lookup       *)
(***************************************************************************)
\* DVLA Vehicle Enquiry Service: 200 with a record, 404, any other failure
\* (non-2xx, network error, bad JSON), or no response at all
DvlaOutcomes == {"found", "notFound", "unavailable", "hang"}

\* totalcarcheck.co.uk: a page with a manufacturer, a page without one, a
\* page whose labels are followed by placeholders and marketing text, the
\* "No vehicle found" page, a non-2xx or network failure, or no response
ScraperOutcomes ==
  {"found", "foundNoMake", "foundGarbage", "notFound", "unavailable", "hang"}

\* gov.im through the scraper: a page with Make, the "No vehicle found" page,
\* a non-2xx answer, no API key or a thrown error, or no response
IomOutcomes == {"found", "notFound", "httpError", "unavailable", "hang"}

\* an upstream that makes the fetcher's promise reject
FaultOutcome == "throw"

Upstreams(dvlaSet, scraperSet, iomSet) ==
  { u \in [dvla : dvlaSet, scraper : scraperSet, iom : iomSet,
           previousUKRegistration : {None} \cup {Some(r) : r \in PreviousRegistrations}] :
      u.iom # "found" => u.previousUKRegistration = None }

(***************************************************************************)
(* mock-data.ts                                                            *)
(***************************************************************************)
MockPlates == {AB12CDE, BD19XYZ, YH65ABC, WR71DEF, MK08GHI}

MockMake(plate) ==
  CASE plate = AB12CDE -> "VOLKSWAGEN"
    [] plate = BD19XYZ -> "BMW"
    [] plate = YH65ABC -> "FORD"
    [] plate = WR71DEF -> "TESLA"
    [] plate = MK08GHI -> "VAUXHALL"

\* src is a provenance tag of the model, not a field of the program
mockVehicles == [p \in MockPlates |->
  [registrationNumber |-> SubSeq(p, 1, 4) \o <<" ">> \o SubSeq(p, 5, 7),
   make |-> MockMake(p), src |-> "mockVehicles"]]

\* a calendar date 'YYYY-MM-DD' as a number that orders as the dates do
DateOf(year, month, day) == year * 10000 + month * 100 + day

\* the completedDate of each test of the fixture, in the order of the array
MockTests(plate) ==
  CASE plate = AB12CDE -> <<DateOf(2024, 8, 15), DateOf(2023, 8, 10), DateOf(2022, 8, 5),
                            DateOf(2022, 8, 8), DateOf(2021, 8, 2), DateOf(2020, 7, 28)>>
    [] plate = BD19XYZ -> <<DateOf(2024, 11, 22), DateOf(2023, 11, 18), DateOf(2022, 11, 15)>>
    [] plate = YH65ABC -> <<DateOf(2023, 2, 10), DateOf(2022, 2, 5)>>
    [] plate = WR71DEF -> <<DateOf(2024, 9, 5)>>
    [] plate = MK08GHI -> <<DateOf(2022, 5, 18), DateOf(2021, 5, 12)>>

mockMOTHistory == [p \in MockPlates |->
  [registration |-> p, make |-> MockMake(p),
   motTests |-> [i \in DOMAIN MockTests(p) |-> [completedDate |-> MockTests(p)[i]]],
   src |-> "mockMOTHistory"]]

getMockVehicleData(registration) ==
  LET normalized == StripWhitespace(toUpperCase(registration))
  IN  IF normalized \in DOMAIN mockVehicles THEN Some(mockVehicles[normalized]) ELSE None

getMockMOTHistory(registration) ==
  LET normalized == StripWhitespace(toUpperCase(registration))
  IN  IF normalized \in DOMAIN mockMOTHistory THEN Some(mockMOTHistory[normalized]) ELSE None

(***************************************************************************)
(* dvla.ts, scraper.ts, iom-scraper.ts: the value a fetcher's promise      *)
(* fulfils with, given what its upstream does (first lookup of the plate   *)
(* in the process: the caches are empty)                                   *)
(***************************************************************************)
getDVLAVehicle(registration, outcome) ==
  LET normalized == StripWhitespace(toUpperCase(registration))
  IN  IF outcome = "found"
      THEN Some([registrationNumber |-> normalized, make |-> "DVLA MAKE", src |-> "dvla"])
      ELSE None

\* what extractField finds on three pages of totalcarcheck.co.uk: a trimmed,
\* non-empty text, or nothing
PageFound ==
  [scrapedFrom |-> Some("totalcarcheck.co.uk"),
   motStatus |-> Some(<<"V","a","l","i","d">>),
   manufacturer |-> Some(<<"F","O","R","D">>),
   model |-> Some(<<"F","O","C","U","S"," ","Z","E","T","E","C">>),
   colour |-> Some(<<"B","l","u","e">>),
   fuelType |-> Some(<<"P","e","t","r","o","l">>),
   engineSize |-> Some(<<"1","9","9","8","c","c">>),
   euroStatus |-> Some(<<"E","u","r","o"," ","6">>),
   bhp |-> Some(123),
   topSpeed |-> Some(<<"1","2","0"," ","m","p","h">>),
   zeroToSixty |-> Some(<<"1","0",".","1"," ","s","e","c","s">>),
   insuranceGroup |-> Some(<<"3","2","e">>),
   ulezCompliant |-> Some(TRUE),
   cazCompliant |-> Some(TRUE),
   previousPrice |-> Some(<<"£","9",",","9","9","5">>),
   previousMileage |-> Some(<<"4","5",",","0","0","0">>),
   bodyStyle |-> Some(<<"H","a","t","c","h","b","a","c","k">>),
   registrationLocation |-> Some(<<"L","e","e","d","s">>)]

PageFoundNoMake ==
  [scrapedFrom |-> Some("totalcarcheck.co.uk"),
   motStatus |-> None,
   manufacturer |-> None,
   model |-> None,
   colour |-> None,
   fuelType |-> None,
   engineSize |-> None,
   euroStatus |-> None,
   bhp |-> None,
   topSpeed |-> None,
   zeroToSixty |-> None,
   insuranceGroup |-> Some(<<"G","r","o","u","p"," ","3","2"," ","(","o","f"," ","5","0",")">>),
   ulezCompliant |-> None,
   cazCompliant |-> None,
   previousPrice |-> None,
   previousMileage |-> None,
   bodyStyle |-> Some(<<"H","a","t","c","h","b","a","c","k">>),
   registrationLocation |-> None]

PageFoundGarbage ==
  [scrapedFrom |-> Some("totalcarcheck.co.uk"),
   motStatus |-> Some(<<"N","o","t"," ","v","a","l","i","d">>),
   manufacturer |-> Some(<<"N","/","A">>),
   model |-> Some(<<"C","l","i","c","k"," ","h","e","r","e"," ","t","o"," ","l","e","a","r","n"," ","m","o","r","e">>),
   colour |-> Some(<<"U","n","k","n","o","w","n">>),
   fuelType |-> None,
   engineSize |-> Some(<<"U","n","a","v","a","i","l","a","b","l","e","."," ","L","e","a","r","n"," ","m","o","r","e">>),
   euroStatus |-> Some(<<"-">>),
   bhp |-> None,
   topSpeed |-> Some(<<"N","/","A">>),
   zeroToSixty |-> Some(<<"G","e","t"," ","a"," ","s","e","t","t","l","e","m","e","n","t"," ","f","i","g","u","r","e"," ","f","o","r"," ","t","h","i","s"," ","c","a","r">>),
   insuranceGroup |-> Some(<<"n","o","t"," ","r","a","t","e","d">>),
   ulezCompliant |-> None,
   cazCompliant |-> None,
   previousPrice |-> Some(<<"c","a","l","l"," ","u","s">>),
   previousMileage |-> Some(<<"N","o","t"," ","A","v","a","i","l","a","b","l","e">>),
   bodyStyle |-> Some(<<"O","u","r"," ","c","o","m","p","a","n","y"," ","o","f","f","e","r","s"," ","f","i","n","a","n","c","e">>),
   registrationLocation |-> Some(<<"\"","L","e","e","d","s","\""," ",">"," ","Y","o","r","k","s","h","i","r","e">>)]

scrapeTotalCarCheck(registration, outcome) ==
  CASE outcome = "found" -> Some(PageFound)
    [] outcome = "foundNoMake" -> Some(PageFoundNoMake)
    [] outcome = "foundGarbage" -> Some(PageFoundGarbage)
    [] OTHER -> None

scrapeIOMVehicle(registration, outcome, previous) ==
  CASE outcome = "found" ->
         Some([registrationNumber |-> registration, make |-> Some("NISSAN"),
               model |-> Some(<<"Q","A","S","H","Q","A","I">>),
               modelVariant |-> Some(<<"A","C","E","N","T","A"," ","D","C","I">>),
               category |-> Some(<<"P","R","I","V","A","T","E","/","L","I","G","H","T"," ","G","O","O","D","S"," ","(","P","L","G",")">>),
               colour |-> Some(<<"N","/","A">>),
               fuelType |-> Some(<<"H","E","A","V","Y"," ","O","I","L">>),
               dateOfFirstRegistrationIOM |-> Some(<<"0","1","/","0","3","/","2","0","1","5">>),
               previousUKRegistration |-> previous, _debug |-> None])
    [] outcome = "notFound" ->
         Some([registrationNumber |-> registration, make |-> None,
               previousUKRegistration |-> None,
               _debug |-> Some("Gov.im returned no vehicle found")])
    [] outcome = "httpError" ->
         Some([registrationNumber |-> registration, make |-> None,
               previousUKRegistration |-> None,
               _debug |-> Some("Browserless HTTP 500")])
    [] OTHER -> None

\* a value that is not undefined, null or ''
Truthy(value) == value # None /\ value[1] # <<>>

\* a || b for optional strings
OrElse(a, b) == IF Truthy(a) THEN a ELSE b

iomToVehicleData(iom) ==
  [registrationNumber |-> iom.registrationNumber,
   make |-> IF iom.make # None THEN iom.make[1] ELSE "Unknown",
   model |-> OrElse(Get(iom, "modelVariant"), Get(iom, "model")),
   colour |-> OrElse(Get(iom, "colour"), Some(<<"U","n","k","n","o","w","n">>))[1],
   fuelType |-> OrElse(Get(iom, "fuelType"), Some(<<"U","n","k","n","o","w","n">>))[1],
   motStatus |-> "No details held by DVLA", src |-> "gov.im"]

(***************************************************************************)
(* aggregator.ts                                                           *)
(***************************************************************************)
ENABLE_SCRAPING == TRUE

ENABLE_IOM_LOOKUP == TRUE

MsgInvalid == "Invalid registration number"

MsgIomUnavailable == "Isle of Man lookup failed. The gov.im service may be unavailable. Please try again later."

\* the diagnostic detail appended from _debug is left out
MsgIomNoData == "Could not extract vehicle data from gov.im."

MsgIomGeneric == "An error occurred while fetching Isle of Man vehicle data. Please try again."

MsgUkNotFound == "Vehicle not found. Please check the registration number and try again."

MsgUkGeneric == "An error occurred while fetching vehicle data. Please try again."

\* a VehicleInfo; isManx = FALSE stands for an absent isManx
VehicleInfo(registration, vehicle, motHistory, extras, ukVehicle, isManx, error) ==
  [registration |-> registration, vehicle |-> vehicle, motHistory |-> motHistory,
   extras |-> extras, ukVehicle |-> ukVehicle, isManx |-> isManx, error |-> error]

ErrorInfo(registration, isManx, msg) ==
  VehicleInfo(registration, None, None, None, None, isManx, Some(msg))

\* mutant: replace(/\s/, '') without the g flag removes the first whitespace
\* character only
Normalize_FirstOnly(registration) ==
  LET upper == toUpperCase(registration)
      at    == {i \in DOMAIN upper : upper[i] \in Whitespace}
  IN  IF at = {} THEN upper
      ELSE LET i == CHOOSE i \in at : \A j \in at : i <= j
           IN  SubSeq(upper, 1, i - 1) \o SubSeq(upper, i + 1, Len(upper))

\* registration.toUpperCase().replace(/\s/g, '')
Normalize(registration) == StripWhitespace(toUpperCase(registration))

\* mutant: only the empty string is refused
IsInvalid_EmptyOnly(normalized) == normalized = <<>>

\* !normalized || normalized.length < 2
IsInvalid(normalized) == normalized = <<>> \/ Len(normalized) < 2

\* mutant: the fixture is consulted whether or not the registry is configured
UKPromises_AlwaysMock(normalized, useDvla) ==
  <<[fetcher |-> "getMockVehicleData", arg |-> normalized],
    [fetcher |-> "getMockMOTHistory", arg |-> normalized],
    [fetcher |-> "scrapeTotalCarCheck", arg |-> normalized]>>

\* mutant: the scraper is asked a second time
UKPromises_ScraperTwice(normalized, useDvla) ==
  <<[fetcher |-> IF useDvla THEN "getDVLAVehicle" ELSE "getMockVehicleData",
     arg |-> normalized],
    [fetcher |-> "getMockMOTHistory", arg |-> normalized],
    [fetcher |-> "scrapeTotalCarCheck", arg |-> normalized],
    [fetcher |-> "scrapeTotalCarCheck", arg |-> normalized]>>

\* the promises array of getUKVehicleInfo, in push order
UKPromises(normalized, useDvla) ==
  <<[fetcher |-> IF useDvla THEN "getDVLAVehicle" ELSE "getMockVehicleData",
     arg |-> normalized],
    [fetcher |-> "getMockMOTHistory", arg |-> normalized]>>
  \o (IF ENABLE_SCRAPING
      THEN <<[fetcher |-> "scrapeTotalCarCheck", arg |-> normalized]>>
      ELSE <<>>)

\* a JavaScript number: an integer, or NaN
Number(n) == [nan |-> FALSE, n |-> n]

NaN == [nan |-> TRUE, n |-> 0]

\* the last index of the run of characters of cls that holds s[i]
RunEnd(s, i, cls) ==
  CHOOSE j \in i..Len(s) :
    /\ \A k \in i..j : s[k] \in cls
    /\ j = Len(s) \/ s[j + 1] \notin cls

\* /\s*word/i matches right after s[j]
FollowedBy(s, j, word) ==
  LET k == CHOOSE k \in (j + 1)..(Len(s) + 1) :
             /\ \A m \in (j + 1)..(k - 1) : s[m] \in Whitespace
             /\ k = Len(s) + 1 \/ s[k] \notin Whitespace
  IN  /\ k + Len(word) - 1 <= Len(s)
      /\ \A m \in DOMAIN word : toUpperChar(s[k + m - 1]) = word[m]

\* the first group of s.match(/([cls]+)\s*word/i), absent without a match
MatchBefore(s, cls, word) ==
  LET starts == {i \in DOMAIN s : s[i] \in cls /\ FollowedBy(s, RunEnd(s, i, cls), word)}
  IN  IF starts = {} THEN None
      ELSE LET i == CHOOSE i \in starts : \A j \in starts : i <= j
           IN  Some(SubSeq(s, i, RunEnd(s, i, cls)))

\* iom-detector.ts: the groups of clean.match(/^([A-Z]+)(\d+)([A-Z]?)$/),
\* joined by sep, the suffix only when it is not empty; absent without a match
JoinGroups(clean, sep) ==
  IF ~RegexTest(<<Plus(Letters), Plus(Digits), Opt(Letters)>>, clean) THEN None
  ELSE LET a == RunEnd(clean, 1, Letters)
           b == RunEnd(clean, a + 1, Digits)
           letters == SubSeq(clean, 1, a)
           numbers == SubSeq(clean, a + 1, b)
           suffix  == SubSeq(clean, b + 1, Len(clean))
       IN  IF suffix # <<>>
           THEN Some(letters \o sep \o numbers \o sep \o suffix)
           ELSE Some(letters \o sep \o numbers)

\* iom-detector.ts: formatManxPlateForApi
formatManxPlateForApi(registration) ==
  LET clean == ReplaceSeparators(toUpperCase(registration), <<>>)
      match == JoinGroups(clean, <<"-">>)
  IN  IF match # None THEN match[1]
      ELSE IF RegexTest(<<Plus(Digits), Lit("M"), Lit("N"), Plus(Digits)>>, clean)
      THEN LET a == RunEnd(clean, 1, Digits)
           IN  SubSeq(clean, 1, a) \o <<"-","M","N","-">> \o SubSeq(clean, a + 3, Len(clean))
      ELSE clean

\* iom-detector.ts: formatManxPlateForDisplay
formatManxPlateForDisplay(registration) ==
  LET clean == ReplaceSeparators(toUpperCase(registration), <<>>)
      match == JoinGroups(clean, <<" ">>)
  IN  IF match # None THEN match[1] ELSE toUpperCase(registration)

\* the leading decimal digits of s
LeadingDigits(s) ==
  IF s = <<>> \/ Head(s) \notin Digits THEN <<>> ELSE SubSeq(s, 1, RunEnd(s, 1, Digits))

\* parseFloat of a text of digits and dots: the longest prefix that is a
\* decimal literal, as its whole and fractional digits; NaN when that prefix
\* holds no digit
parseFloat(s) ==
  LET whole == LeadingDigits(s)
      rest  == SubSeq(s, Len(whole) + 1, Len(s))
      frac  == IF rest # <<>> /\ Head(rest) = "." THEN LeadingDigits(Tail(rest)) ELSE <<>>
  IN  IF whole = <<>> /\ frac = <<>> THEN [nan |-> TRUE, whole |-> <<>>, frac |-> <<>>]
      ELSE [nan |-> FALSE, whole |-> whole, frac |-> frac]

\* Math.round(x * 1000) for the x parseFloat returned
RoundThousand(x) ==
  IF x.nan THEN NaN
  ELSE LET digit(k) == IF k <= Len(x.frac) THEN DigitValue(x.frac[k]) ELSE 0
       IN  Number(1000 * parseInt(x.whole) + 100 * digit(1) + 10 * digit(2) + digit(3)
                  + (IF digit(4) >= 5 THEN 1 ELSE 0))

\* the engine size of the page in cc
parseEngineCapacity(engineSize) ==
  IF ~Truthy(engineSize) THEN Number(0)
  ELSE LET ccMatch    == MatchBefore(engineSize[1], Digits, <<"C", "C">>)
           literMatch == MatchBefore(engineSize[1], Digits \cup {"."}, <<"L">>)
       IN  IF ccMatch # None THEN Number(parseInt(ccMatch[1]))
           ELSE IF literMatch # None THEN RoundThousand(parseFloat(literMatch[1]))
                ELSE Number(0)

\* the MOT status buildVehicleFromScraped parses from the scraped text
parseMotStatus(motStatus) ==
  IF motStatus = None \/ motStatus = Some(<<>>) THEN "No details held by DVLA"
  ELSE LET lower == toLowerCase(motStatus[1])
       IN  IF includes(lower, <<"v","a","l","i","d">>)
              \/ (includes(lower, <<"e","x","p","i","r","e","s">>) /\ ~includes(lower, <<"e","x","p","i","r","e","d">>))
           THEN "Valid"
           ELSE IF includes(lower, <<"e","x","p","i","r","e","d">>) \/ includes(lower, <<"n","o","t"," ","v","a","l","i","d">>)
           THEN "Not valid"
           ELSE "No details held by DVLA"

buildVehicleFromScraped(registration, scraped) ==
  [registrationNumber |-> registration,
   make |-> OrElse(Get(scraped, "manufacturer"), Some(<<"U","n","k","n","o","w","n">>))[1],
   model |-> Get(scraped, "model"),
   colour |-> OrElse(Get(scraped, "colour"), Some(<<"U","n","k","n","o","w","n">>))[1],
   fuelType |-> OrElse(Get(scraped, "fuelType"), Some(<<"U","n","k","n","o","w","n">>))[1],
   engineCapacity |-> parseEngineCapacity(Get(scraped, "engineSize")),
   motStatus |-> parseMotStatus(Get(scraped, "motStatus")),
   euroStatus |-> Get(scraped, "euroStatus"),
   src |-> "scraped"]

\* mutant: the not-found gate is never taken
hasAnyData_Always(vehicle, motHistory, scrapedData) == TRUE

\* mutant: the scraped record does not count as data
hasAnyData_NoScraped(vehicle, motHistory, scrapedData) ==
  vehicle # None \/ motHistory # None

\* vehicle || motHistory || scrapedData
hasAnyData(vehicle, motHistory, scrapedData) ==
  vehicle # None \/ motHistory # None \/ scrapedData # None

\* the extras getUKVehicleInfo builds from the scraped record
UKExtras(scrapedData) ==
  [bhp |-> Get(scrapedData, "bhp"),
   topSpeed |-> sanitizeScrapedString(Get(scrapedData, "topSpeed"), 30),
   zeroToSixty |-> sanitizeScrapedString(Get(scrapedData, "zeroToSixty"), 30),
   insuranceGroup |-> sanitizeInsuranceGroup(Get(scrapedData, "insuranceGroup")),
   ulezCompliant |-> Get(scrapedData, "ulezCompliant"),
   cazCompliant |-> Get(scrapedData, "cazCompliant"),
   previousPrice |-> sanitizePrice(Get(scrapedData, "previousPrice")),
   previousMileage |-> sanitizeScrapedString(Get(scrapedData, "previousMileage"), 30),
   bodyStyle |-> sanitizeScrapedString(Get(scrapedData, "bodyStyle"), 50),
   registrationLocation |->
     sanitizeScrapedString(Get(scrapedData, "registrationLocation"), 50),
   sources |-> IF Get(scrapedData, "scrapedFrom") # None
               THEN <<Get(scrapedData, "scrapedFrom")[1]>>
               ELSE <<>>]

\* mutant: a scraped record with a manufacturer replaces the registry record
UKResult_ScrapedFirst(normalized, results) ==
  LET vehicle0    == results[1]
      motHistory  == results[2]
      scrapedData == IF ENABLE_SCRAPING THEN results[3] ELSE None
      vehicle == IF scrapedData # None /\ Get(scrapedData[1], "manufacturer") # None
                 THEN Some(buildVehicleFromScraped(normalized, scrapedData[1]))
                 ELSE vehicle0
      extras == IF scrapedData # None
                THEN Some(UKExtras(scrapedData[1]))
                ELSE None
  IN  IF ~hasAnyData(vehicle, motHistory, scrapedData)
      THEN ErrorInfo(normalized, FALSE, MsgUkNotFound)
      ELSE VehicleInfo(normalized, vehicle, motHistory, extras, None, FALSE, None)

\* getUKVehicleInfo after "await Promise.all(promises)": results is the array
\* of the fulfilled values
UKResult(normalized, results) ==
  LET vehicle0    == results[1]
      motHistory  == results[2]
      scrapedData == IF ENABLE_SCRAPING THEN results[3] ELSE None
      vehicle == IF vehicle0 = None /\ scrapedData # None
                    /\ Get(scrapedData[1], "manufacturer") # None
                 THEN Some(buildVehicleFromScraped(normalized, scrapedData[1]))
                 ELSE vehicle0
      extras == IF scrapedData # None
                THEN Some(UKExtras(scrapedData[1]))
                ELSE None
  IN  IF ~hasAnyData(vehicle, motHistory, scrapedData)
      THEN ErrorInfo(normalized, FALSE, MsgUkNotFound)
      ELSE VehicleInfo(normalized, vehicle, motHistory, extras, None, FALSE, None)

\* mutant: the awaits of getUKVehicleInfo are outside its try block
AwaitInTry_IomOnly(fn) == fn = "getIOMVehicleInfo"

\* the await of fn is inside fn's try block
AwaitInTry(fn) == fn \in {"getUKVehicleInfo", "getIOMVehicleInfo"}

\* the catch block of getUKVehicleInfo
UKCatch(normalized) == ErrorInfo(normalized, FALSE, MsgUkGeneric)

\* the catch block of getIOMVehicleInfo
IOMCatch(normalized) == ErrorInfo(normalized, TRUE, MsgIomGeneric)

\* mutant: a record without make is accepted
LacksMake_Never(iomData) == FALSE

\* !iomData.make
LacksMake(iomData) == Get(iomData, "make") = None

\* if (iomData.previousUKRegistration)
HasPreviousRegistration(iomData) ==
  /\ Get(iomData, "previousUKRegistration") # None
  /\ Get(iomData, "previousUKRegistration")[1] # <<>>

IOMExtras(iomData) ==
  [previousUKRegistration |-> sanitizeUKRegistration(Get(iomData, "previousUKRegistration")),
   dateOfFirstRegistrationIOM |->
     sanitizeScrapedString(Get(iomData, "dateOfFirstRegistrationIOM"), DefaultMaxLength),
   modelVariant |-> sanitizeScrapedString(Get(iomData, "modelVariant"), DefaultMaxLength),
   category |-> sanitizeScrapedString(Get(iomData, "category"), 20),
   sources |-> <<"gov.im">>]

\* mutant: the sources of the cross-reference come first
MergedSources_UkFirst(ukExtras) ==
  (IF ukExtras # None THEN ukExtras[1].sources ELSE <<>>) \o <<"gov.im">>

\* ['gov.im', ...(ukExtras?.sources || [])]
MergedSources(ukExtras) ==
  <<"gov.im">> \o (IF ukExtras # None THEN ukExtras[1].sources ELSE <<>>)

\* mutant: the extras of the cross-reference are left out
MergeExtras_IomOnly(ukExtras, extras) ==
  [extras EXCEPT !.sources = MergedSources(ukExtras)]

\* { ...ukExtras, ...extras, sources: [...] }: a property of extras, also one
\* whose value is undefined, replaces the property ukExtras has under that name
MergeExtras(ukExtras, extras) ==
  [(IF ukExtras # None THEN extras @@ ukExtras[1] ELSE extras)
     EXCEPT !.sources = MergedSources(ukExtras)]

\* mutant: the record of the cross-reference replaces the primary vehicle
IOMResult_UkPrimary(normalized, iomData, ukInfo) ==
  VehicleInfo(normalized,
              IF ukInfo # None /\ ukInfo[1].vehicle # None
              THEN ukInfo[1].vehicle ELSE Some(iomToVehicleData(iomData)),
              IF ukInfo # None THEN ukInfo[1].motHistory ELSE None,
              Some(MergeExtras(IF ukInfo # None THEN ukInfo[1].extras ELSE None,
                               IOMExtras(iomData))),
              IF ukInfo # None THEN ukInfo[1].vehicle ELSE None, TRUE, None)

\* mutant: the error of the nested UK lookup becomes the error of the result
IOMResult_ErrorCopied(normalized, iomData, ukInfo) ==
  IF ukInfo # None /\ ukInfo[1].error # None
  THEN ErrorInfo(normalized, TRUE, ukInfo[1].error[1])
  ELSE VehicleInfo(normalized, Some(iomToVehicleData(iomData)),
                   IF ukInfo # None THEN ukInfo[1].motHistory ELSE None,
                   Some(MergeExtras(IF ukInfo # None THEN ukInfo[1].extras ELSE None,
                                    IOMExtras(iomData))),
                   IF ukInfo # None THEN ukInfo[1].vehicle ELSE None, TRUE, None)

\* getIOMVehicleInfo from "const vehicle = iomToVehicleData(iomData)" on;
\* ukInfo is the result of the nested getUKVehicleInfo, absent when there was
\* no previous registration
IOMResult(normalized, iomData, ukInfo) ==
  LET extras     == IOMExtras(iomData)
      motHistory == IF ukInfo # None THEN ukInfo[1].motHistory ELSE None
      ukVehicle  == IF ukInfo # None THEN ukInfo[1].vehicle ELSE None
      ukExtras   == IF ukInfo # None THEN ukInfo[1].extras ELSE None
      mergedExtras == MergeExtras(ukExtras, extras)
  IN  VehicleInfo(normalized, Some(iomToVehicleData(iomData)), motHistory,
                  Some(mergedExtras), ukVehicle, TRUE, None)

\* mutant: the values are collected in the order the promises settle
Settle_ArrivalOrder(slots, i, v) ==
  LET k == CHOOSE k \in DOMAIN slots :
             ~slots[k].done /\ \A j \in 1..(k - 1) : slots[j].done
  IN  [slots EXCEPT ![k] = [done |-> TRUE, value |-> v]]

\* Promise.all's result array: slot i is filled when promise i fulfils
Settle(slots, i, v) == [slots EXCEPT ![i] = [done |-> TRUE, value |-> v]]

\* mutant: the join waits for the registry and the history only
AllSettled_FirstTwo(slots) == \A i \in DOMAIN slots : i <= 2 => slots[i].done

\* mutant: a race, the first fulfilled promise resolves the join
AllSettled_Any(slots) == \E i \in DOMAIN slots : slots[i].done

\* Promise.all resolves when every input promise has fulfilled
AllSettled(slots) == \A i \in DOMAIN slots : slots[i].done

Fetchers == {"getDVLAVehicle", "getMockVehicleData", "getMockMOTHistory",
             "scrapeTotalCarCheck", "scrapeIOMVehicle"}

(***************************************************************************)
(* One getVehicleInfo call                                                 *)
(***************************************************************************)
VARIABLES
  registration,   \* the raw argument of getVehicleInfo
  USE_DVLA_API,   \* !!DVLA_API_KEY, fixed when the module is loaded
  MOT_CREDENTIALS, \* MOT_CLIENT_ID, MOT_CLIENT_SECRET, MOT_API_KEY and MOT_TENANT_ID are all set
  upstream,       \* what each upstream service does during this lookup
  pc,             \* "entry", "iomAwait", "ukAwait", "done"
  stage,          \* who awaits getUKVehicleInfo: "none", "top", "xref"
  promises,       \* the promises array of the running getUKVehicleInfo
  inflight,       \* indices of promises that have not settled
  slots,          \* the result array Promise.all is filling
  arrival,        \* the indices of the settled promises, in settling order
  failed,         \* Promise.all (or the awaited fetcher) has rejected
  iomData,        \* what scrapeIOMVehicle returned
  ukInfo,         \* what getUKVehicleInfo returned
  result,         \* what getVehicleInfo returned
  raised,         \* getVehicleInfo's promise rejected: the caller got an exception
  calls,          \* how often each fetcher has been invoked
  fn,             \* the helper function called on its own, "none" during a lookup
  arg,            \* the arguments of that call
  ret,            \* what the call returned, absent until it returns
  now,            \* Date.now(), in milliseconds
  ticks,          \* how often the clock has been advanced
  fetcher,        \* the fetcher the callers of the process call, "none" during a lookup
  configured,     \* the API key or the credentials of that fetcher are set
  cache,          \* each caching fetcher's Map: normalized plate -> { data, timestamp }
  lastRequestTime, \* scraper.ts: the time of the last scraper request
  cachedToken,    \* mot.ts: the cached access token, absent or { expiresAt }
  callers         \* the calls of the fetcher, each at its await or returned

vars == <<registration, USE_DVLA_API, MOT_CREDENTIALS, upstream, pc, stage, promises, inflight,
          slots, arrival, failed, iomData, ukInfo, result, raised, calls,
          fn, arg, ret,
          now, ticks, fetcher, configured, cache, lastRequestTime, cachedToken, callers>>

\* the call of a helper function on its own
call == <<fn, arg, ret>>

config == <<registration, USE_DVLA_API, MOT_CREDENTIALS, upstream>>

\* the state of the process the fetchers share
process == <<now, ticks, fetcher, configured, cache, lastRequestTime, cachedToken, callers>>

\* Date.now() when the process starts
StartTime == 1000000

CachingFetchers == {"getDVLAVehicle", "scrapeTotalCarCheck", "scrapeIOMVehicle",
                    "checkInsurance"}

\* the normalized plates and the raw forms the fetchers are called with
FetcherInputs == {<<"a","b","1","2"," ","c","d","e">>, AB12CDE, ZZ99ZZZ}

\* the raw forms fetcher f is called with: the inspection-history fetcher
\* keeps nothing per plate and is called with one plate
Inputs(f) == IF f = "getMOTHistory" THEN {AB12CDE} ELSE FetcherInputs

FetcherPlates == {StripWhitespace(toUpperCase(r)) : r \in FetcherInputs}

MaxCallers == 3

\* the scraper and the inspection-history fetcher are called by three
\* callers, every other fetcher by two
Callers(f) ==
  IF f \in {"scrapeTotalCarCheck", "getMOTHistory"} THEN 1..MaxCallers
  ELSE 1..(MaxCallers - 1)

\* a call that has not been made
IdleCall ==
  [pc |-> "idle", plate |-> <<>>, startedAt |-> None, cached |-> None, lastSeen |-> None,
   wake |-> None,
   tokenSeen |-> None, tokenRequestedAt |-> None, usedToken |-> None,
   issuedAt |-> None, answeredAt |-> None, outcome |-> "none",
   fromCache |-> FALSE, result |-> None, threw |-> FALSE]

\* the module-level state right after the modules are loaded
ProcessStart(f) ==
  /\ now = StartTime
  /\ ticks = 0
  /\ fetcher = f
  /\ cache = [g \in CachingFetchers |-> [p \in FetcherPlates |-> None]]
  /\ lastRequestTime = 0
  /\ cachedToken = None
  /\ callers = [c \in 1..MaxCallers |-> IdleCall]

InitWith(ups) ==
  /\ registration \in RawInputs
  /\ USE_DVLA_API \in BOOLEAN
  /\ MOT_CREDENTIALS \in BOOLEAN
  /\ upstream \in ups
  /\ pc = "entry"
  /\ stage = "none"
  /\ promises = <<>>
  /\ inflight = {}
  /\ slots = <<>>
  /\ arrival = <<>>
  /\ failed = FALSE
  /\ iomData = None
  /\ ukInfo = None
  /\ result = None
  /\ raised = FALSE
  /\ calls = [f \in Fetchers |-> 0]
  /\ fn = "none"
  /\ arg = None
  /\ ret = None
  /\ ProcessStart("none")
  /\ configured = FALSE

Init == InitWith(Upstreams(DvlaOutcomes, ScraperOutcomes, IomOutcomes))

\* what the upstream of a promise's fetcher does; the fixtures always answer
OutcomeOf(p) ==
  CASE p.fetcher = "getDVLAVehicle" -> upstream.dvla
    [] p.fetcher = "scrapeTotalCarCheck" -> upstream.scraper
    [] OTHER -> "fixture"

\* the value promise p fulfils with
ValueOf(p) ==
  CASE p.fetcher = "getDVLAVehicle" -> getDVLAVehicle(p.arg, upstream.dvla)
    [] p.fetcher = "getMockVehicleData" -> getMockVehicleData(p.arg)
    [] p.fetcher = "getMockMOTHistory" -> getMockMOTHistory(p.arg)
    [] p.fetcher = "scrapeTotalCarCheck" -> scrapeTotalCarCheck(p.arg, upstream.scraper)

\* mutant: the cross-reference classifies the previous registration again
\* and looks an Isle-of-Man plate up at gov.im
DispatchUK_Reclassify(normalized, caller) ==
  IF caller = "xref" /\ isManxPlate(normalized)
  THEN /\ calls' = [calls EXCEPT !["scrapeIOMVehicle"] = @ + 1]
       /\ pc' = "iomAwait"
       /\ UNCHANGED <<promises, inflight, slots, stage>>
  ELSE LET ps == UKPromises(normalized, USE_DVLA_API)
       IN  /\ promises' = ps
           /\ inflight' = DOMAIN ps
           /\ slots' = [i \in DOMAIN ps |-> [done |-> FALSE, value |-> None]]
           /\ calls' = [f \in Fetchers |->
                          calls[f] + Cardinality({i \in DOMAIN ps : ps[i].fetcher = f})]
           /\ stage' = caller
           /\ pc' = "ukAwait"

\* getUKVehicleInfo up to "await Promise.all(promises)"
DispatchUK(normalized, caller) ==
  LET ps == UKPromises(normalized, USE_DVLA_API)
  IN  /\ promises' = ps
      /\ inflight' = DOMAIN ps
      /\ slots' = [i \in DOMAIN ps |-> [done |-> FALSE, value |-> None]]
      /\ calls' = [f \in Fetchers |->
                     calls[f] + Cardinality({i \in DOMAIN ps : ps[i].fetcher = f})]
      /\ stage' = caller
      /\ pc' = "ukAwait"

\* getVehicleInfo up to its first await
GetVehicleInfo ==
  /\ pc = "entry"
  /\ LET normalized == Normalize(registration)
     IN  IF IsInvalid(normalized)
         THEN /\ result' = Some(ErrorInfo(normalized, FALSE, MsgInvalid))
              /\ pc' = "done"
              /\ UNCHANGED <<stage, promises, inflight, slots, calls>>
         ELSE IF isManxPlate(registration) /\ ENABLE_IOM_LOOKUP
              THEN /\ calls' = [calls EXCEPT !["scrapeIOMVehicle"] = @ + 1]
                   /\ pc' = "iomAwait"
                   /\ UNCHANGED <<stage, promises, inflight, slots, result>>
              ELSE /\ DispatchUK(normalized, "top")
                   /\ UNCHANGED result
  /\ UNCHANGED <<call, process, config, arrival, failed, iomData, ukInfo, raised>>

\* scrapeIOMVehicle's promise fulfils and getIOMVehicleInfo runs to its next
\* await or to its return
IomFulfil ==
  /\ pc = "iomAwait"
  /\ upstream.iom \notin {"hang", FaultOutcome}
  /\ LET normalized == Normalize(registration)
         data == scrapeIOMVehicle(registration, upstream.iom,
                                  upstream.previousUKRegistration)
     IN  /\ iomData' = data
         /\ IF data = None
            THEN /\ result' = Some(ErrorInfo(normalized, TRUE, MsgIomUnavailable))
                 /\ pc' = "done"
                 /\ UNCHANGED <<stage, promises, inflight, slots, calls>>
            ELSE IF LacksMake(data[1])
                 THEN /\ result' = Some(ErrorInfo(normalized, TRUE, MsgIomNoData))
                      /\ pc' = "done"
                      /\ UNCHANGED <<stage, promises, inflight, slots, calls>>
                 ELSE IF HasPreviousRegistration(data[1])
                      THEN /\ DispatchUK(StripWhitespace(data[1].previousUKRegistration[1]),
                                         "xref")
                           /\ UNCHANGED result
                      ELSE /\ result' = Some(IOMResult(normalized, data[1], None))
                           /\ pc' = "done"
                           /\ UNCHANGED <<stage, promises, inflight, slots, calls>>
  /\ UNCHANGED <<call, process, config, arrival, failed, ukInfo, raised>>

\* one dispatched fetch completes and its promise fulfils
FetchFulfil(i) ==
  /\ pc = "ukAwait"
  /\ i \in inflight
  /\ OutcomeOf(promises[i]) \notin {"hang", FaultOutcome}
  /\ inflight' = inflight \ {i}
  /\ slots' = Settle(slots, i, ValueOf(promises[i]))
  /\ arrival' = Append(arrival, i)
  /\ UNCHANGED <<call, process, config, pc, stage, promises, failed, iomData, ukInfo, result, raised,
                 calls>>

\* getUKVehicleInfo returns info: getVehicleInfo returns it as it is, and
\* getIOMVehicleInfo merges it into its own result and returns
ReturnUK(info) ==
  /\ ukInfo' = Some(info)
  /\ result' = IF stage = "top" THEN Some(info)
               ELSE Some(IOMResult(Normalize(registration), iomData[1], Some(info)))

\* Promise.all resolves: getUKVehicleInfo returns, and so does its caller
UkJoin ==
  /\ pc = "ukAwait"
  /\ ~failed
  /\ AllSettled(slots)
  /\ ReturnUK(UKResult(promises[1].arg, [i \in DOMAIN slots |-> slots[i].value]))
  /\ pc' = "done"
  /\ UNCHANGED <<call, process, config, stage, promises, inflight, slots, arrival, failed, iomData,
                 raised, calls>>

Next ==
  \/ GetVehicleInfo
  \/ IomFulfil
  \/ \E i \in 1..3 : FetchFulfil(i)
  \/ UkJoin

Spec == Init /\ [][Next]_vars

\* once a call is made, every continuation that can run does run and every
\* upstream answer that is on its way arrives; when a call is made is up to
\* the caller
SpecLive ==
  /\ Init
  /\ [][Next]_vars
  /\ WF_vars(IomFulfil)
  /\ \A i \in 1..3 : WF_vars(FetchFulfil(i))
  /\ WF_vars(UkJoin)

(***************************************************************************)
(* The same lookup against fetchers whose promises may reject.  No fetcher *)
(* of the repository rejects (each catches inside and returns null), so    *)
(* this specification injects the fault the catch blocks of the aggregator *)
(* are written for.                                                        *)
(***************************************************************************)
InitFault ==
  InitWith(Upstreams(DvlaOutcomes \cup {FaultOutcome},
                     ScraperOutcomes \cup {FaultOutcome},
                     IomOutcomes \cup {FaultOutcome}))

\* one dispatched fetch rejects, and Promise.all rejects with it at once
FetchReject(i) ==
  /\ pc = "ukAwait"
  /\ i \in inflight
  /\ OutcomeOf(promises[i]) = FaultOutcome
  /\ inflight' = inflight \ {i}
  /\ failed' = TRUE
  /\ arrival' = Append(arrival, i)
  /\ UNCHANGED <<call, process, config, pc, stage, promises, slots, iomData, ukInfo, result, raised,
                 calls>>

\* "await Promise.all(promises)" throws inside getUKVehicleInfo
UkCatch ==
  /\ pc = "ukAwait"
  /\ failed
  /\ IF AwaitInTry("getUKVehicleInfo")
     THEN ReturnUK(UKCatch(promises[1].arg)) /\ UNCHANGED raised
     ELSE IF stage = "xref" /\ AwaitInTry("getIOMVehicleInfo")
          THEN /\ result' = Some(IOMCatch(Normalize(registration)))
               /\ UNCHANGED <<ukInfo, raised>>
          ELSE raised' = TRUE /\ UNCHANGED <<ukInfo, result>>
  /\ pc' = "done"
  /\ UNCHANGED <<call, process, config, stage, promises, inflight, slots, arrival, failed, iomData,
                 calls>>

\* "await scrapeIOMVehicle(originalReg)" throws inside getIOMVehicleInfo
IomReject ==
  /\ pc = "iomAwait"
  /\ upstream.iom = FaultOutcome
  /\ failed' = TRUE
  /\ IF AwaitInTry("getIOMVehicleInfo")
     THEN result' = Some(IOMCatch(Normalize(registration))) /\ UNCHANGED raised
     ELSE raised' = TRUE /\ UNCHANGED result
  /\ pc' = "done"
  /\ UNCHANGED <<call, process, config, stage, promises, inflight, slots, arrival, iomData, ukInfo,
                 calls>>

NextFault ==
  \/ Next
  \/ \E i \in 1..3 : FetchReject(i)
  \/ UkCatch
  \/ IomReject

SpecFault == InitFault /\ [][NextFault]_vars

(***************************************************************************)
(* The helper functions of iom-detector.ts and aggregator.ts, each called   *)
(* on its own with an argument from a fixed set.                           *)
(***************************************************************************)
\* n times the character X
Filler(n) == [i \in 1..n |-> "X"]

\* the maxLength values the aggregator passes
MaxLengths == {20, 30, 50, DefaultMaxLength}

PlateInputs == {
  <<"P","M","N"," ","1","4","7"," ","E">>, <<"M","A","N"," ","1","2","3">>, <<"1","-","M","N","-","0","0">>, <<"A","B","1","2"," ","C","D","E">>, <<"B","D","1","9","X","Y","Z">>,
  <<"p","m","n","1","4","7","e">>, <<"M","A","N","X"," ","2">>, <<"M","A","N","X","-","2">>, <<"A","M","N"," ","1","A">>, <<"1","2","3","-","M","N","-","4","5","6">>,
  <<"A","B","M","N"," "," ","1","2">>, <<"M","N">>, <<"M","A","N">>, <<"R","O","M","A","N"," ","1">>, <<" ","M","A","N","\t","6"," ","F"," ">>, <<>> }

TextInputs ==
  {None, Some(<<>>), Some(<<" "," "," ">>), Some(<<" "," ","V","O","L","K","S","W","A","G","E","N"," "," ">>),
   Some(<<"<","s","c","r","i","p","t",">","b","a","d","<","/","s","c","r","i","p","t",">">>), Some(<<"N","/","A">>), Some(<<"n","/","a">>), Some(<<" ","N","/","A"," ">>),
   Some(<<"-">>), Some(<<"U","n","k","n","o","w","n">>), Some(<<"N","O","T"," ","A","V","A","I","L","A","B","L","E">>),
   Some(<<"C","l","i","c","k"," ","H","e","r","e">>), Some(<<"l","e","a","r","n"," ","m","o","r","e">>), Some(<<"S","e","t","t","l","e","m","e","n","t"," ","F","i","g","u","r","e">>),
   Some(<<"c","o","m","p","a","n","y"," ","o","f","f","e","r","s">>), Some(<<"O","u","r"," ","c","o","m","p","a","n","y"," ","o","f","f","e","r","s"," ","f","i","n","a","n","c","e">>),
   Some(<<"a","\"","b">>), Some(<<"a","<","b">>), Some(<<"a",">","b">>), Some(<<"H","a","t","c","h","b","a","c","k">>),
   Some(<<"5","-","d","o","o","r">>)}
  \cup {Some(Filler(n)) : n \in MaxLengths}
  \cup {Some(Filler(n + 1)) : n \in MaxLengths}
  \cup {Some(<<" ">> \o Filler(n) \o <<" ">>) : n \in MaxLengths}

InsuranceGroupInputs ==
  {None, Some(<<>>), Some(<<"3","2","E">>), Some(<<"n","o","t"," ","r","a","t","e","d">>), Some(<<" ","7"," ">>),
   Some(<<"1","5">>), Some(<<"5","a">>), Some(<<"9","9","Z">>), Some(<<"5","0">>), Some(<<"1","0","0">>),
   Some(<<"3","2","E","F">>), Some(<<"A","1","2">>), Some(<<"g","r","o","u","p"," ","9","9">>), Some(<<"G","r","o","u","p"," ","3","2"," ","(","o","f"," ","5","0",")">>),
   Some(<<"5","1"," ","x">>), Some(<<"g","r","o","u","p","_","1","2">>), Some(<<"0","7","-","E">>), Some(<<"N","/","A">>)}

UKRegistrationInputs ==
  {None, Some(<<>>), Some(<<" "," "," ">>), Some(<<"N","/","A">>), Some(<<"n","/","a">>), Some(<<"N","A">>),
   Some(<<"A","B","1","2"," ","C","D","E">>), Some(<<"a","b","1","2","c","d","e">>), Some(<<" ","A","1","2","3"," ","B","C","D"," ">>), Some(<<"A","1"," ","B","C","D">>),
   Some(<<"A","B","C"," ","1","2","3","D">>), Some(<<"A","B","C","1","D">>), Some(<<"A","B","C","1","2","3","4">>), Some(<<"A","1">>),
   Some(<<"A","B","1","2">>), Some(<<"1","2","3","4"," ","A","B","C">>), Some(<<"1"," ","A">>), Some(<<"A","B","1","2","C","D">>),
   Some(<<"M","A","N"," ","1","2","3">>), Some(<<"A","B","C","D","1","2","3">>), Some(<<"1","2","3","4","5","A","B">>), Some(<<"A","B"," ","1","2"," ","C"," ","D","E">>),
   Some(<<"A","B","1","2","-","C","D","E">>), Some(<<"A","B","1","2","C","D","E","F">>), Some(<<"1","-","M","N","-","0","0">>)}

PriceInputs ==
  {None, Some(<<>>), Some(<<" "," "," ">>), Some(<<"£","9",",","9","9","5">>), Some(<<" "," ","£","9",",","9","9","5"," "," ">>), Some(<<"9","9","9","5">>),
   Some(<<",">>), Some(<<"£">>), Some(<<"$">>), Some(<<"c","a","l","l"," ","u","s">>), Some(<<"N","/","A">>),
   Some(<<"£","9",",","9","9","5",">">>), Some(<<">"," ","£","1",",","2","0","0">>), Some(<<"£","9",",","9","9","5","<">>), Some(<<"<","b",">","£","9",",","9","9","5","<","/","b",">">>),
   Some(<<"$","1","0","0">>), Some(<<"€"," ","5",",","0","0","0">>), Some(<<"f","r","o","m"," ","1","2","0","0"," ","p","o","u","n","d","s"," ","o","r"," ","n","e","a","r","e","s","t"," ","o","f","f","e","r">>),
   Some([i \in 1..MaxPriceLength |-> "9"]), Some([i \in 1..(MaxPriceLength + 1) |-> "9"]),
   Some(<<" ">> \o [i \in 1..MaxPriceLength |-> "9"] \o <<" ">>),
   Some([i \in 1..MaxPriceLength |-> "9"] \o <<">">>),
   Some(<<"£">> \o [i \in 1..MaxPriceLength |-> "9"])}

EngineSizeInputs ==
  {None, Some(<<>>), Some(<<"1","9","9","8","c","c">>), Some(<<"2",".","0","L">>), Some(<<"1","9","9","8"," ","c","c">>), Some(<<"1","5","9","8"," ","C","C">>),
   Some(<<"1",",","9","9","8","c","c">>), Some(<<"0","c","c">>), Some(<<"1",".","6"," ","l","i","t","r","e">>), Some(<<"2","l">>), Some(<<"2",".","l">>),
   Some(<<".","5","l">>), Some(<<"1",".","2",".","3"," ","l">>), Some(<<"1",".","4","9","9","9"," ","L">>), Some(<<"1",".","9","9","9","6"," ","L">>),
   Some(<<"1","6","v"," ","1",".","4"," ","l">>), Some(<<"2",".","0"," ","L","i","t","r","e"," ","D","i","e","s","e","l"," ","1","9","9","8","c","c">>), Some(<<"1","2"," ","3","4","c","c">>),
   Some(<<"D","i","e","s","e","l">>), Some(<<"N","/","A">>), Some(<<"1",".","6">>), Some(<<"3"," ","c","y","l","i","n","d","e","r">>), Some(<<"1","9","9","8","c">>),
   Some(<<"U","n","a","v","a","i","l","a","b","l","e","."," ","L","e","a","r","n"," ","m","o","r","e">>), Some(<<".",".","l">>)}

\* the texts the page shows after MOT Status
MotStatusInputs ==
  {None, Some(<<>>),
   Some(<<"V","a","l","i","d">>),
   Some(<<"v","a","l","i","d"," ","u","n","t","i","l"," ","1","2"," ","M","a","y"," ","2","0","2","5">>),
   Some(<<"E","x","p","i","r","e","s"," ","1","2"," ","M","a","y"," ","2","0","2","5">>),
   Some(<<"E","x","p","i","r","e","d">>),
   Some(<<"E","x","p","i","r","e","d"," ","3"," ","d","a","y","s"," ","a","g","o">>),
   Some(<<"N","o","t"," ","v","a","l","i","d">>),
   Some(<<"N","O","T"," ","V","A","L","I","D">>),
   Some(<<"I","n","v","a","l","i","d">>),
   Some(<<"N","o"," ","d","e","t","a","i","l","s">>),
   Some(<<"e","x","p","i","r","e","s"," ","s","o","o","n",","," ","l","a","s","t"," ","e","x","p","i","r","e","d"," ","2","0","2","0">>),
   Some(<<"U","n","k","n","o","w","n">>),
   Some(<<"M","O","T"," ","d","u","e">>),
   Some(<<"E","x","e","m","p","t">>)}

\* the plates the formatting functions are called with
FormatInputs ==
  {<<"P","M","N"," ","1","4","7"," ","E">>,
   <<"p","m","n","1","4","7","e">>,
   <<"M","A","N"," ","1","2","3">>,
   <<"M","A","N","-","1","2","3">>,
   <<"M","A","N","X"," ","2">>,
   <<"A","M","N"," ","1","A">>,
   <<"A","B","M","N"," "," ","1","2">>,
   <<" ","m","a","n","\t","6"," ","f"," ">>,
   <<"1","-","M","N","-","0","0">>,
   <<"1","m","n","0","0">>,
   <<"1","2","3"," ","M","N"," ","4","5","6">>,
   <<"A","B","1","2"," ","C","D","E">>,
   <<"B","D","1","9","X","Y","Z">>,
   <<"1","2"," ","a","b">>,
   <<"a","-","1","-","b","-","2">>,
   <<"M","N">>,
   <<"-">>,
   <<"M","A","N"," ","1","2"," ","A","B">>, <<>>}

Calls ==
  {[fn |-> "isManxPlate", arg |-> [registration |-> r]] : r \in PlateInputs}
  \cup {[fn |-> "sanitizeScrapedString", arg |-> [value |-> v, maxLength |-> m]] :
          v \in TextInputs, m \in MaxLengths}
  \cup {[fn |-> "sanitizeInsuranceGroup", arg |-> [value |-> v]] :
          v \in InsuranceGroupInputs}
  \cup {[fn |-> "sanitizeUKRegistration", arg |-> [value |-> v]] :
          v \in UKRegistrationInputs}
  \cup {[fn |-> "sanitizePrice", arg |-> [value |-> v]] : v \in PriceInputs}
  \cup {[fn |-> "buildVehicleFromScraped",
         arg |-> [registration |-> ZZ99ZZZ, scraped |-> [PageFound EXCEPT !.engineSize = e]]] :
          e \in EngineSizeInputs}
  \cup {[fn |-> "buildVehicleFromScraped",
         arg |-> [registration |-> ZZ99ZZZ, scraped |-> [PageFound EXCEPT !.motStatus = m]]] :
          m \in MotStatusInputs}
  \cup {[fn |-> f, arg |-> [registration |-> r]] :
          f \in {"formatManxPlateForApi", "formatManxPlateForDisplay"}, r \in FormatInputs}

\* no lookup is running; one helper function is about to be called
InitFunctions ==
  /\ registration = <<>>
  /\ USE_DVLA_API = FALSE
  /\ MOT_CREDENTIALS = FALSE
  /\ upstream = [dvla |-> "hang", scraper |-> "hang", iom |-> "hang",
                 previousUKRegistration |-> None]
  /\ pc = "entry"
  /\ stage = "none"
  /\ promises = <<>>
  /\ inflight = {}
  /\ slots = <<>>
  /\ arrival = <<>>
  /\ failed = FALSE
  /\ iomData = None
  /\ ukInfo = None
  /\ result = None
  /\ raised = FALSE
  /\ calls = [f \in Fetchers |-> 0]
  /\ \E c \in Calls : fn = c.fn /\ arg = c.arg
  /\ ret = None
  /\ ProcessStart("none")
  /\ configured = FALSE

lookup == <<registration, USE_DVLA_API, MOT_CREDENTIALS, upstream, pc, stage, promises, inflight,
            slots, arrival, failed, iomData, ukInfo, result, raised, calls>>

CallIsManxPlate ==
  /\ fn = "isManxPlate" /\ ret = None
  /\ ret' = Some(isManxPlate(arg.registration))
  /\ UNCHANGED <<lookup, process, fn, arg>>

CallSanitizeScrapedString ==
  /\ fn = "sanitizeScrapedString" /\ ret = None
  /\ ret' = Some(sanitizeScrapedString(arg.value, arg.maxLength))
  /\ UNCHANGED <<lookup, process, fn, arg>>

CallSanitizeInsuranceGroup ==
  /\ fn = "sanitizeInsuranceGroup" /\ ret = None
  /\ ret' = Some(sanitizeInsuranceGroup(arg.value))
  /\ UNCHANGED <<lookup, process, fn, arg>>

CallSanitizeUKRegistration ==
  /\ fn = "sanitizeUKRegistration" /\ ret = None
  /\ ret' = Some(sanitizeUKRegistration(arg.value))
  /\ UNCHANGED <<lookup, process, fn, arg>>

CallSanitizePrice ==
  /\ fn = "sanitizePrice" /\ ret = None
  /\ ret' = Some(sanitizePrice(arg.value))
  /\ UNCHANGED <<lookup, process, fn, arg>>

CallBuildVehicleFromScraped ==
  /\ fn = "buildVehicleFromScraped" /\ ret = None
  /\ ret' = Some(buildVehicleFromScraped(arg.registration, arg.scraped))
  /\ UNCHANGED <<lookup, process, fn, arg>>

CallFormatManxPlateForApi ==
  /\ fn = "formatManxPlateForApi" /\ ret = None
  /\ ret' = Some(formatManxPlateForApi(arg.registration))
  /\ UNCHANGED <<lookup, process, fn, arg>>

CallFormatManxPlateForDisplay ==
  /\ fn = "formatManxPlateForDisplay" /\ ret = None
  /\ ret' = Some(formatManxPlateForDisplay(arg.registration))
  /\ UNCHANGED <<lookup, process, fn, arg>>

NextFunctions ==
  \/ CallIsManxPlate
  \/ CallSanitizeScrapedString
  \/ CallSanitizeInsuranceGroup
  \/ CallSanitizeUKRegistration
  \/ CallSanitizePrice
  \/ CallBuildVehicleFromScraped
  \/ CallFormatManxPlateForApi
  \/ CallFormatManxPlateForDisplay

SpecFunctions == InitFunctions /\ [][NextFunctions]_vars

(***************************************************************************)
(* dvla.ts, mot.ts, scraper.ts, iom-scraper.ts, insurance.ts, mock-data.ts: *)
(* the fetchers of one process, called by up to MaxCallers callers that    *)
(* may overlap, with their caches, the scraper's rate limit and the access *)
(* token.  A call runs from one await to the next in one step.             *)
(***************************************************************************)
DVLA_CACHE_TTL == 1000 * 60 * 60

CACHE_TTL == 1000 * 60 * 60

IOM_CACHE_TTL == 1000 * 60 * 60 * 24

INSURANCE_CACHE_TTL == 1000 * 60 * 60

CacheTTL(f) ==
  CASE f = "getDVLAVehicle" -> DVLA_CACHE_TTL
    [] f = "scrapeTotalCarCheck" -> CACHE_TTL
    [] f = "scrapeIOMVehicle" -> IOM_CACHE_TTL
    [] f = "checkInsurance" -> INSURANCE_CACHE_TTL

MIN_REQUEST_INTERVAL == 2000

\* a token is not reused in the last 60 seconds before it expires
TokenExpiryBuffer == 60000

\* expires_in of the token response, in seconds
ExpiresIn == 3599

AllFetchers == CachingFetchers \cup {"getMOTHistory", "getMockVehicleData"}

\* the fetchers that return null when their key or credentials are missing
NeedsKey(f) ==
  f \in {"getDVLAVehicle", "scrapeIOMVehicle", "checkInsurance", "getMOTHistory"}

\* what the source can answer to the request of a fetcher: a record, its
\* not-found answer, a non-2xx status, an error reported by the Browserless
\* function, a page the insurance parser cannot read, a rejected fetch, a
\* body that cannot be parsed
SourceOutcomes(f) ==
  CASE f \in {"getDVLAVehicle", "scrapeTotalCarCheck", "getMOTHistory"} ->
         {"found", "notFound", "httpError", "networkError", "badBody"}
    [] f = "scrapeIOMVehicle" ->
         {"found", "notFound", "httpError", "functionError", "networkError", "badBody"}
    [] f = "checkInsurance" ->
         {"found", "notFound", "undetermined", "httpError", "functionError",
          "networkError", "badBody"}
    [] f = "getMockVehicleData" -> {"fixture"}

\* the answers of the token endpoint
TokenOutcomes == {"ok", "httpError", "networkError", "badBody"}

\* the outcomes that make the awaited statement throw
Throws(outcome) == outcome \in {"networkError", "badBody"}

\* mutant: only the fetch itself is inside the try block
InTry_FetchOnly(f, step) == step = "networkError"

\* the statement that fails at step is inside the try block of fetcher f
InTry(f, step) == step \in {"token", "networkError", "badBody"}

\* what the fetcher returns for an answer that does not throw: null or a record
ResultOf(f, outcome, plate) ==
  CASE outcome = "found" -> Some([kind |-> "data", plate |-> plate])
    [] outcome = "fixture" ->
         IF plate \in MockPlates THEN Some([kind |-> "data", plate |-> plate]) ELSE None
    [] outcome = "notFound" ->
         IF f = "scrapeIOMVehicle" THEN Some([kind |-> "errorData", plate |-> plate])
         ELSE IF f = "checkInsurance" THEN Some([kind |-> "notInsured", plate |-> plate])
         ELSE None
    [] outcome \in {"httpError", "functionError"} ->
         IF f = "scrapeIOMVehicle" THEN Some([kind |-> "debug", plate |-> plate]) ELSE None
    [] OTHER -> None

\* mutant: whatever the fetcher returns is cached
Cacheable_Everything(f, outcome) == f \in CachingFetchers

\* the answers after which the fetcher calls cache.set
Cacheable(f, outcome) ==
  CASE f = "getDVLAVehicle" -> outcome \in {"found", "notFound"}
    [] f = "scrapeTotalCarCheck" -> outcome = "found"
    [] f = "scrapeIOMVehicle" -> outcome \in {"found", "notFound"}
    [] f = "checkInsurance" -> outcome \in {"found", "notFound"}
    [] OTHER -> FALSE

\* mutant: an entry never expires
CacheHit_Forever(entry, t, ttl) == entry # None

\* cached && Date.now() - cached.timestamp < TTL
CacheHit(entry, t, ttl) == entry # None /\ t - entry[1].timestamp < ttl

\* mutant: the token is reused until it expires
TokenValid_NoBuffer(token, t) == token # None /\ t < token[1].expiresAt

\* cachedToken && Date.now() < cachedToken.expiresAt - 60_000
TokenValid(token, t) == token # None /\ t < token[1].expiresAt - TokenExpiryBuffer

\* the clock steps of a behaviour: half a second, what is left of the
\* fetcher's time to live (of the token's reusable life) after half a second,
\* for the scraper what is left of the request interval, and for the token
\* its whole life
ClockSteps(f) ==
  {500} \cup (IF f \in CachingFetchers THEN {CacheTTL(f) - 500} ELSE {})
        \cup (IF f = "scrapeTotalCarCheck" THEN {MIN_REQUEST_INTERVAL - 500} ELSE {})
        \cup (IF f = "getMOTHistory"
              THEN {ExpiresIn * 1000 - TokenExpiryBuffer - 500, ExpiresIn * 1000}
              ELSE {})

MaxTicks == 2

InitFetchers ==
  /\ registration = <<>>
  /\ USE_DVLA_API = FALSE
  /\ MOT_CREDENTIALS = FALSE
  /\ upstream = [dvla |-> "hang", scraper |-> "hang", iom |-> "hang",
                 previousUKRegistration |-> None]
  /\ pc = "entry"
  /\ stage = "none"
  /\ promises = <<>>
  /\ inflight = {}
  /\ slots = <<>>
  /\ arrival = <<>>
  /\ failed = FALSE
  /\ iomData = None
  /\ ukInfo = None
  /\ result = None
  /\ raised = FALSE
  /\ calls = [f \in Fetchers |-> 0]
  /\ fn = "none"
  /\ arg = None
  /\ ret = None
  /\ \E f \in AllFetchers : ProcessStart(f)
  /\ configured \in BOOLEAN
  /\ ~NeedsKey(fetcher) => configured

\* time passes; a source answers within the resolution of the clock, and
\* the clock does not pass the time a timer is due
Tick(d) ==
  /\ fetcher # "none"
  /\ ticks < MaxTicks
  /\ \A c \in 1..MaxCallers : callers[c].pc \notin {"awaitToken", "awaitResponse"}
  /\ d \in ClockSteps(fetcher)
  /\ \A c \in 1..MaxCallers : callers[c].pc = "sleeping" => now + d <= callers[c].wake[1]
  /\ now' = now + d
  /\ ticks' = ticks + 1
  /\ UNCHANGED <<lookup, call, fetcher, configured, cache, lastRequestTime, cachedToken,
                 callers>>

\* the call returns value
Returned(cl, value) == [cl EXCEPT !.pc = "done", !.result = Some(value)]

\* the call sends its request to the source
Requested(cl) == [cl EXCEPT !.pc = "awaitResponse", !.issuedAt = Some(now)]

\* mutant: rateLimit never waits
MustWait_Never(t, last) == FALSE

\* rateLimit: timeSinceLastRequest < MIN_REQUEST_INTERVAL
MustWait(t, last) == t - last < MIN_REQUEST_INTERVAL

\* caller c calls the fetcher with raw: the fetcher runs to its first await,
\* or returns
Invoke(c, raw) ==
  /\ fetcher # "none"
  /\ c \in Callers(fetcher)
  /\ raw \in Inputs(fetcher)
  /\ callers[c].pc = "idle"
  /\ IF c = 1 THEN TRUE ELSE callers[c - 1].pc # "idle"
  /\ LET normalized == StripWhitespace(toUpperCase(raw))
         cached == IF fetcher \in CachingFetchers THEN cache[fetcher][normalized] ELSE None
         cl == [callers[c] EXCEPT !.plate = normalized, !.startedAt = Some(now),
                                  !.cached = cached]
     IN  IF fetcher \in CachingFetchers /\ CacheHit(cached, now, CacheTTL(fetcher))
         THEN /\ callers' = [callers EXCEPT ![c] =
                               Returned([cl EXCEPT !.fromCache = TRUE], cached[1].data)]
              /\ UNCHANGED <<lastRequestTime>>
         ELSE IF NeedsKey(fetcher) /\ ~configured
         THEN /\ callers' = [callers EXCEPT ![c] = Returned(cl, None)]
              /\ UNCHANGED <<lastRequestTime>>
         ELSE IF fetcher = "scrapeTotalCarCheck"
         THEN \* rateLimit()
              IF MustWait(now, lastRequestTime)
              THEN /\ callers' = [callers EXCEPT ![c] =
                        [cl EXCEPT !.pc = "sleeping",
                                   !.lastSeen = Some(lastRequestTime),
                                   !.wake = Some(now + (MIN_REQUEST_INTERVAL
                                                        - (now - lastRequestTime)))]]
                   /\ UNCHANGED <<lastRequestTime>>
              ELSE /\ lastRequestTime' = now
                   /\ callers' = [callers EXCEPT ![c] =
                        Requested([cl EXCEPT !.lastSeen = Some(lastRequestTime)])]
         ELSE IF fetcher = "getMOTHistory"
         THEN \* getAccessToken()
              /\ IF TokenValid(cachedToken, now)
                 THEN callers' = [callers EXCEPT ![c] =
                                    Requested([cl EXCEPT !.usedToken = cachedToken])]
                 ELSE callers' = [callers EXCEPT ![c] =
                                    [cl EXCEPT !.pc = "awaitToken",
                                               !.tokenSeen = cachedToken,
                                               !.tokenRequestedAt = Some(now)]]
              /\ UNCHANGED <<lastRequestTime>>
         ELSE IF fetcher = "getMockVehicleData"
         THEN \* the simulated delay
              /\ callers' = [callers EXCEPT ![c] = [cl EXCEPT !.pc = "awaitResponse"]]
              /\ UNCHANGED <<lastRequestTime>>
         ELSE /\ callers' = [callers EXCEPT ![c] = Requested(cl)]
              /\ UNCHANGED <<lastRequestTime>>
  /\ UNCHANGED <<lookup, call, now, ticks, fetcher, configured, cache, cachedToken>>

\* the timer of rateLimit fires, not before it is due
Wake(c) ==
  /\ callers[c].pc = "sleeping"
  /\ now >= callers[c].wake[1]
  /\ lastRequestTime' = now
  /\ callers' = [callers EXCEPT ![c] = Requested(callers[c])]
  /\ UNCHANGED <<lookup, call, now, ticks, fetcher, configured, cache, cachedToken>>

\* a failing statement of the fetcher: caught and turned into null, or the
\* promise of the fetcher rejects
Failed(cl, f, step) ==
  IF InTry(f, step) THEN Returned(cl, None)
  ELSE [cl EXCEPT !.pc = "done", !.threw = TRUE]

\* the token endpoint answers the request of caller c
TokenRespond(c, outcome) ==
  /\ callers[c].pc = "awaitToken"
  /\ outcome \in TokenOutcomes
  /\ IF outcome = "ok"
     THEN LET token == Some([expiresAt |-> now + ExpiresIn * 1000])
          IN  /\ cachedToken' = token
              /\ callers' = [callers EXCEPT ![c] =
                               Requested([callers[c] EXCEPT !.usedToken = token])]
     ELSE /\ callers' = [callers EXCEPT ![c] =
                           Failed([callers[c] EXCEPT !.outcome = "token"],
                                  fetcher, "token")]
          /\ UNCHANGED cachedToken
  /\ UNCHANGED <<lookup, call, now, ticks, fetcher, configured, cache, lastRequestTime>>

\* the source answers the request of caller c and the fetcher returns
Respond(c, outcome) ==
  /\ callers[c].pc = "awaitResponse"
  /\ outcome \in SourceOutcomes(fetcher)
  /\ LET cl == [callers[c] EXCEPT !.outcome = outcome, !.answeredAt = Some(now)]
         value == ResultOf(fetcher, outcome, cl.plate)
     IN  IF Throws(outcome)
         THEN /\ callers' = [callers EXCEPT ![c] = Failed(cl, fetcher, outcome)]
              /\ UNCHANGED cache
         ELSE /\ callers' = [callers EXCEPT ![c] = Returned(cl, value)]
              /\ IF Cacheable(fetcher, outcome)
                 THEN cache' = [cache EXCEPT ![fetcher][cl.plate] =
                                  Some([data |-> value, timestamp |-> now])]
                 ELSE UNCHANGED cache
  /\ UNCHANGED <<lookup, call, now, ticks, fetcher, configured, lastRequestTime,
                 cachedToken>>

NextFetchers ==
  \/ \E d \in ClockSteps(fetcher) : Tick(d)
  \/ \E c \in 1..MaxCallers, raw \in FetcherInputs : Invoke(c, raw)
  \/ \E c \in 1..MaxCallers : Wake(c)
  \/ \E c \in 1..MaxCallers, outcome \in TokenOutcomes : TokenRespond(c, outcome)
  \/ \E c \in 1..MaxCallers, outcome \in SourceOutcomes(fetcher) : Respond(c, outcome)

SpecFetchers == InitFetchers /\ [][NextFetchers]_vars

(***************************************************************************)
(* Properties                                                              *)
(***************************************************************************)
NoFetcherInvoked == \A f \in Fetchers : calls[f] = 0

\* one of vehicle, motHistory, extras, ukVehicle is populated
HasData(info) ==
  info.vehicle # None \/ info.motHistory # None \/ info.extras # None
    \/ info.ukVehicle # None

\* C1: an input whose upper-cased, whitespace-stripped form has fewer than 2
\* characters never gets past the entry of getVehicleInfo: no fetcher is ever
\* invoked, nothing is awaited, and the result returned is the invalid-input
\* error with no data.
C1_InvalidInputNoFetch ==
  Len(StripWhitespace(toUpperCase(registration))) < 2 =>
    /\ NoFetcherInvoked
    /\ promises = <<>>
    /\ pc \in {"entry", "done"}
    /\ pc = "done" => /\ result # None
                      /\ result[1].error = Some(MsgInvalid)
                      /\ ~HasData(result[1])

C1_Witness ==
  /\ pc = "done"
  /\ Len(StripWhitespace(toUpperCase(registration))) = 1
  /\ result = Some(ErrorInfo(<<"A">>, FALSE, MsgInvalid))

\* C2: every result getVehicleInfo returns has either an error and no data,
\* or no error and at least one of vehicle, motHistory, extras, ukVehicle.
C2_ErrorXorData ==
  result # None => ((result[1].error # None) # HasData(result[1]))

C2_Witness ==
  /\ result # None
  /\ result[1].error = None
  /\ result[1].vehicle = None
  /\ result[1].motHistory = None
  /\ result[1].extras # None

\* the three values getUKVehicleInfo joins, as the fetchers produced them
NothingFetched == \A i \in DOMAIN promises : ValueOf(promises[i]) = None

\* C3: a UK-branch lookup (top-level or cross-reference) returns the
\* 'Vehicle not found' error exactly when the registry-or-mock record, the
\* inspection history and the scraped record are all absent (then no vehicle
\* can be synthesized either), and a success without error otherwise.
C3_NotFoundIffNothingFetched ==
  ukInfo # None =>
    /\ (ukInfo[1].error = Some(MsgUkNotFound)) <=> NothingFetched
    /\ ~NothingFetched => ukInfo[1].error = None /\ HasData(ukInfo[1])

C3_Witness ==
  /\ ukInfo # None
  /\ ValueOf(promises[1]) = None
  /\ ValueOf(promises[2]) = None
  /\ ValueOf(promises[3]) # None
  /\ Get(ValueOf(promises[3])[1], "manufacturer") = None
  /\ ukInfo[1].error = None

\* the branch getVehicleInfo chose threw: the Isle-of-Man fetcher, or a fetcher
\* of a top-level UK lookup
TopLevelFetcherThrew == failed /\ stage \in {"none", "top"}

\* a fetcher of the UK cross-reference inside the Isle-of-Man branch threw
CrossReferenceFetcherThrew == failed /\ stage = "xref"

FetchedValues == [i \in DOMAIN promises |-> ValueOf(promises[i])]

\* C5: a UK-branch lookup dispatches exactly one of getDVLAVehicle and
\* getMockVehicleData, the registry if and only if it is configured; when the
\* configured registry yields no record the fixture is not consulted and the
\* vehicle is absent or synthesized from the scraped record.
C5_RegistryXorMock ==
  stage # "none" =>
    /\ calls["getDVLAVehicle"] + calls["getMockVehicleData"] = 1
    /\ (calls["getDVLAVehicle"] = 1) <=> USE_DVLA_API
    /\ Cardinality({i \in DOMAIN promises :
          promises[i].fetcher \in {"getDVLAVehicle", "getMockVehicleData"}}) = 1
    /\ (ukInfo # None /\ USE_DVLA_API /\ upstream.dvla # "found") =>
          \/ ukInfo[1].vehicle = None
          \/ ukInfo[1].vehicle[1].src = "scraped"

C5_Witness ==
  /\ ukInfo # None
  /\ USE_DVLA_API
  /\ upstream.dvla = "unavailable"
  /\ StripWhitespace(toUpperCase(promises[1].arg)) \in MockPlates
  /\ calls["getMockVehicleData"] = 0
  /\ ukInfo[1].vehicle = None
  /\ ukInfo[1].motHistory # None

\* C6: getUKVehicleInfo returns only when every fetch it dispatched has
\* completed, and every value a fetch produced is in the result: the
\* registry-or-mock record as vehicle, the history as motHistory, the scraped
\* record as extras.
C6_JoinWaitsForAll ==
  ukInfo # None =>
    /\ inflight = {}
    /\ Len(arrival) = Len(promises)
    /\ \A i \in DOMAIN slots : slots[i].done
    /\ FetchedValues[1] # None => ukInfo[1].vehicle = FetchedValues[1]
    /\ FetchedValues[2] # None => ukInfo[1].motHistory = FetchedValues[2]
    /\ FetchedValues[3] # None =>
         /\ ukInfo[1].extras # None
         /\ ukInfo[1].extras[1].sources = <<"totalcarcheck.co.uk">>

C6_Witness ==
  /\ ukInfo # None
  /\ inflight = {}
  /\ \A i \in DOMAIN promises : FetchedValues[i] # None
  /\ ukInfo[1].vehicle # None /\ ukInfo[1].motHistory # None /\ ukInfo[1].extras # None

\* C7: the result of a lookup is a function of the plate, the configuration
\* and the outcome of each fetcher, whatever the order in which the fetches
\* complete: vehicle comes from the registry-or-mock fetch (or is synthesized
\* from the scraped record), motHistory from the history fetch, extras from
\* the scraper.
C7_CompletionOrderIrrelevant ==
  ukInfo # None /\ ~failed =>
    /\ ukInfo[1] = UKResult(promises[1].arg, FetchedValues)
    /\ ukInfo[1].vehicle # None =>
         ukInfo[1].vehicle[1].src \in {"dvla", "mockVehicles", "scraped"}
    /\ ukInfo[1].motHistory # None => ukInfo[1].motHistory[1].src = "mockMOTHistory"
    /\ result = IF stage = "top" THEN ukInfo
                ELSE Some(IOMResult(Normalize(registration), iomData[1],
                                    Some(UKResult(promises[1].arg, FetchedValues))))

\* the scraper finished first and the registry-or-mock fetch last
C7_Witness ==
  /\ pc = "done"
  /\ arrival = <<3, 2, 1>>
  /\ \A i \in DOMAIN promises : FetchedValues[i] # None
  /\ result # None /\ result[1].error = None

\* C8 as claimed: every getVehicleInfo call that was made eventually returns,
\* also when an upstream never answers.
C8_EventuallyReturns == (pc # "entry") ~> (pc = "done")

\* the fixtures hold nothing for the plate and every upstream source that was
\* consulted could not be reached
AllSourcesUnavailable ==
  \/ /\ stage = "top"
     /\ \A i \in DOMAIN promises :
          /\ ValueOf(promises[i]) = None
          /\ OutcomeOf(promises[i]) \in {"unavailable", "fixture"}
  \/ /\ stage = "none"
     /\ calls["scrapeIOMVehicle"] = 1
     /\ upstream.iom = "unavailable"

\* C9 as claimed: when every source of the chosen branch is Unavailable the
\* result is an error other than the one returned when the sources report the
\* plate absent.
C9_UnavailableIsNotNotFound ==
  (pc = "done" /\ AllSourcesUnavailable) =>
    /\ result # None
    /\ result[1].error # None
    /\ result[1].error \notin {Some(MsgUkNotFound), Some(MsgIomNoData)}

\* scrapeIOMVehicle has returned to getIOMVehicleInfo
IomReturned == calls["scrapeIOMVehicle"] = 1 /\ pc # "iomAwait" /\ ~(failed /\ stage = "none")

\* C10: when scrapeIOMVehicle returns null or a record without make, the
\* lookup ends at once with an error result that has isManx set and none of
\* vehicle, motHistory, extras, ukVehicle, and no UK fetcher is invoked.
C10_IomFailureIsTerminal ==
  (IomReturned /\ (iomData = None \/ iomData[1].make = None)) =>
    /\ pc = "done"
    /\ result # None
    /\ result[1].error =
         Some(IF iomData = None THEN MsgIomUnavailable ELSE MsgIomNoData)
    /\ result[1].isManx
    /\ ~HasData(result[1])
    /\ stage = "none" /\ promises = <<>>
    /\ \A f \in Fetchers \ {"scrapeIOMVehicle"} : calls[f] = 0

C10_Witness ==
  /\ pc = "done"
  /\ iomData # None
  /\ iomData[1].make = None
  /\ result[1].error = Some(MsgIomNoData)
  /\ result[1].isManx

\* getIOMVehicleInfo has a usable gov.im record and has got past the
\* "if (iomData.previousUKRegistration)" test
PastCrossReferenceTest ==
  IomReturned /\ iomData # None /\ iomData[1].make # None

\* the UK fetchers
UKFetchers == Fetchers \ {"scrapeIOMVehicle"}

\* C11 as claimed: in the Isle-of-Man branch the UK cross-reference lookup is
\* made exactly when the record's previous registration passes
\* sanitizeUKRegistration; a rejected value causes no UK fetch and the result
\* has neither ukVehicle nor motHistory.
C11_CrossReferenceIffSanitized ==
  PastCrossReferenceTest =>
    LET accepted == sanitizeUKRegistration(Get(iomData[1], "previousUKRegistration")) # None
    IN  /\ (stage = "xref") <=> accepted
        /\ ~accepted =>
             /\ \A f \in UKFetchers : calls[f] = 0
             /\ pc = "done" => /\ result[1].ukVehicle = None
                               /\ result[1].motHistory = None

\* getVehicleInfo has returned a successful Isle-of-Man result
IomSuccess ==
  pc = "done" /\ result # None /\ result[1].isManx /\ result[1].error = None

\* the record has a value under the name f
Supplies(extras, f) == f \in DOMAIN extras /\ extras[f] # None

\* the extras of the nested getUKVehicleInfo, if there are any
CrossReferenceExtras == IF ukInfo # None THEN ukInfo[1].extras ELSE None

\* in the merged extras each of the given fields has the Isle-of-Man value
\* when there is one, and else the value of the UK cross-reference when there
\* is one
IomWinsUkFillsGaps(fields) ==
  LET iom    == IOMExtras(iomData[1])
      uk     == CrossReferenceExtras
      merged == result[1].extras[1]
  IN  \A f \in fields :
        /\ Supplies(iom, f) => merged[f] = iom[f]
        /\ (~Supplies(iom, f) /\ uk # None /\ Supplies(uk[1], f)) =>
             merged[f] = uk[1][f]

\* C12 as claimed: in the merged extras of an Isle-of-Man result every field
\* has the Isle-of-Man value when the Isle-of-Man extras supply one, and the
\* UK cross-reference's value when only the cross-reference supplies one.
C12_Original ==
  IomSuccess => IomWinsUkFillsGaps(DOMAIN result[1].extras[1])

\* C12 as amended: the same for every field other than sources; sources is
\* not taken from either side but built from both.
C12_IomWinsUkFillsGaps ==
  IomSuccess =>
    /\ IomWinsUkFillsGaps(DOMAIN result[1].extras[1] \ {"sources"})
    /\ \A f \in DOMAIN IOMExtras(iomData[1]) : f \in DOMAIN result[1].extras[1]
    /\ CrossReferenceExtras # None =>
         \A f \in DOMAIN CrossReferenceExtras[1] : f \in DOMAIN result[1].extras[1]

C12_Witness ==
  /\ IomSuccess
  /\ CrossReferenceExtras # None
  /\ result[1].extras[1].previousUKRegistration = Some(<<"A","B","1","2"," ","C","D","E">>)
  /\ result[1].extras[1].category = None
  /\ result[1].extras[1].bodyStyle = Some(<<"H","a","t","c","h","b","a","c","k">>)
  /\ result[1].extras[1].insuranceGroup = Some(<<"3","2","E">>)

\* C13: in every successful Isle-of-Man result extras.sources is 'gov.im'
\* followed by the sources of the UK cross-reference's extras in their order
\* (by nothing when there are no such extras).
C13_SourcesIomFirst ==
  IomSuccess =>
    LET sources == result[1].extras[1].sources
    IN  /\ sources # <<>>
        /\ Head(sources) = "gov.im"
        /\ Tail(sources) = IF CrossReferenceExtras # None
                           THEN CrossReferenceExtras[1].sources ELSE <<>>

C13_Witness ==
  /\ IomSuccess
  /\ result[1].extras[1].sources = <<"gov.im", "totalcarcheck.co.uk">>

\* C14: a successful Isle-of-Man result whose previous registration is a valid
\* UK plate has the vehicle built from the gov.im record alone, motHistory and
\* ukVehicle as the nested getUKVehicleInfo returned them, the merged extras
\* and isManx.
C14_PrimaryVehicleKept ==
  (IomSuccess /\ IOMExtras(iomData[1]).previousUKRegistration # None) =>
    /\ stage = "xref" /\ ukInfo # None
    /\ result[1].vehicle = Some(iomToVehicleData(iomData[1]))
    /\ result[1].vehicle[1].src = "gov.im"
    /\ result[1].vehicle[1].registrationNumber = registration
    /\ result[1].motHistory = ukInfo[1].motHistory
    /\ result[1].ukVehicle = ukInfo[1].vehicle
    /\ result[1].extras = Some(MergeExtras(ukInfo[1].extras, IOMExtras(iomData[1])))
    /\ result[1].isManx

C14_Witness ==
  /\ IomSuccess
  /\ IOMExtras(iomData[1]).previousUKRegistration = Some(<<"A","B","1","2"," ","C","D","E">>)
  /\ result[1].vehicle[1].make = "NISSAN"
  /\ result[1].ukVehicle # None
  /\ result[1].ukVehicle[1].make = "VOLKSWAGEN"
  /\ result[1].motHistory # None
  /\ result[1].motHistory[1].registration = AB12CDE

\* the text is one sanitizeScrapedString lets through unchanged
PassesSanitizer(text, maxLength) ==
  sanitizeScrapedString(Some(text), maxLength) = Some(text)

\* the vehicle records of the result that buildVehicleFromScraped made
ScrapedVehicles ==
  { v \in {result[1].vehicle, result[1].ukVehicle} : v # None /\ v[1].src = "scraped" }

\* the scraped record of the running UK lookup
ScrapedRecord == ValueOf(promises[3])

\* C15 as claimed: every free text of a returned result that comes from the
\* scraped record has passed a sanitizer, in the extras and in a vehicle
\* built from the scraped record (make, model, colour, fuel type, euro
\* status).
C15_ScrapedTextSanitized ==
  (pc = "done" /\ result # None) =>
    /\ \A v \in ScrapedVehicles :
         /\ PassesSanitizer(v[1].make, DefaultMaxLength)
         /\ v[1].model # None => PassesSanitizer(v[1].model[1], DefaultMaxLength)
         /\ Get(ScrapedRecord[1], "colour") # None =>
              PassesSanitizer(v[1].colour, DefaultMaxLength)
         /\ Get(ScrapedRecord[1], "fuelType") # None =>
              PassesSanitizer(v[1].fuelType, DefaultMaxLength)
         /\ v[1].euroStatus # None => PassesSanitizer(v[1].euroStatus[1], DefaultMaxLength)
    /\ (result[1].extras # None /\ ukInfo # None /\ ukInfo[1].extras # None) =>
         LET extras == result[1].extras[1]
         IN  /\ \A f \in {"topSpeed", "zeroToSixty", "previousMileage"} :
                  extras[f] # None => PassesSanitizer(extras[f][1], 30)
             /\ \A f \in {"bodyStyle", "registrationLocation"} :
                  extras[f] # None => PassesSanitizer(extras[f][1], 50)
             /\ extras.insuranceGroup # None =>
                  sanitizeInsuranceGroup(extras.insuranceGroup) = extras.insuranceGroup
             /\ extras.previousPrice # None =>
                  sanitizePrice(extras.previousPrice) = extras.previousPrice

\* every maximal run of whitespace becomes one space
RECURSIVE CollapseWhitespace(_)
CollapseWhitespace(s) ==
  IF s = <<>> THEN <<>>
  ELSE IF Head(s) \in Whitespace
       THEN <<" ">> \o CollapseWhitespace(DropLeading(s, Whitespace))
       ELSE <<Head(s)>> \o CollapseWhitespace(Tail(s))

\* one of the Isle-of-Man patterns matches the space-normalized or the fully
\* stripped form of the plate
MatchesManxPattern(raw) ==
  LET spaced   == trim(CollapseWhitespace(toUpperCase(raw)))
      stripped == StripWhitespace(toUpperCase(raw))
  IN  \E p \in DOMAIN IOM_PATTERNS :
        RegexTest(IOM_PATTERNS[p], spaced) \/ RegexTest(IOM_PATTERNS[p], stripped)

\* C16 as claimed: "PMN 147 E", "MAN 123" and "1-MN-00" are Isle-of-Man
\* plates, "AB12 CDE" and "BD19XYZ" are UK plates, and in general a plate is
\* an Isle-of-Man plate exactly when one of the five patterns matches its
\* space-normalized or its fully stripped form.
C16_ClassifyAsSpecified ==
  (fn = "isManxPlate" /\ ret # None) =>
    /\ arg.registration \in {<<"P","M","N"," ","1","4","7"," ","E">>, <<"M","A","N"," ","1","2","3">>, <<"1","-","M","N","-","0","0">>} => ret[1]
    /\ arg.registration \in {<<"A","B","1","2"," ","C","D","E">>, <<"B","D","1","9","X","Y","Z">>} => ~ret[1]
    /\ ret[1] = MatchesManxPattern(arg.registration)

\* C17: upper-casing and stripping whitespace is idempotent on every raw
\* input, and the registration of every returned result is the normalized
\* input, which normalizes to itself.
C17_NormalizeIdempotent ==
  /\ Normalize(Normalize(registration)) = Normalize(registration)
  /\ result # None =>
       /\ result[1].registration = Normalize(registration)
       /\ Normalize(result[1].registration) = result[1].registration

C17_Witness ==
  /\ pc = "done"
  /\ registration = <<"P","M","N"," ","1","4","7"," ","E">>
  /\ result # None
  /\ result[1].registration = <<"P","M","N","1","4","7","E">>

\* the placeholder and boilerplate phrases, upper-cased
DenyList == {<<"N","/","A">>, <<"-">>, <<"U","N","K","N","O","W","N">>, <<"N","O","T"," ","A","V","A","I","L","A","B","L","E">>, <<"C","L","I","C","K"," ","H","E","R","E">>,
             <<"L","E","A","R","N"," ","M","O","R","E">>, <<"S","E","T","T","L","E","M","E","N","T"," ","F","I","G","U","R","E">>, <<"C","O","M","P","A","N","Y"," ","O","F","F","E","R","S">>}

HasMarkup(text) == \E i \in DOMAIN text : text[i] \in {"<", ">", "\""}

\* what sanitizeScrapedString owes its caller, given whether the value counts
\* as longer than maxLength
TextContract(tooLong) ==
  LET value == arg.value
      out   == ret[1]
  IN  /\ (\/ value = None
          \/ trim(value[1]) = <<>>
          \/ HasMarkup(value[1])
          \/ tooLong
          \/ toUpperCase(value[1]) \in DenyList) => out = None
      /\ out # None =>
           /\ out = Some(trim(value[1]))
           /\ out[1] # <<>>
           /\ Head(out[1]) \notin Whitespace
           /\ out[1][Len(out[1])] \notin Whitespace
           /\ ~HasMarkup(out[1])
           /\ Len(out[1]) <= arg.maxLength

\* C18 as claimed: sanitizeScrapedString rejects every value that is empty or
\* whitespace-only, holds '<', '>' or '"', is longer than maxLength or is a
\* deny-listed phrase, and returns every other value trimmed.
C18_Original ==
  (fn = "sanitizeScrapedString" /\ ret # None) =>
    TextContract(arg.value # None /\ Len(arg.value[1]) > arg.maxLength)

\* C18 as amended: the length that is compared with maxLength is the length
\* of the trimmed value.
C18_SanitizeText ==
  (fn = "sanitizeScrapedString" /\ ret # None) =>
    TextContract(arg.value # None /\ Len(trim(arg.value[1])) > arg.maxLength)

C18_Witness ==
  /\ fn = "sanitizeScrapedString"
  /\ arg.value = Some(<<" ">> \o Filler(20) \o <<" ">>)
  /\ arg.maxLength = 20
  /\ ret = Some(Some(Filler(20)))

\* the kind of a character of a plate: letter, digit, other
Kind(c) == IF c \in Letters THEN "L" ELSE IF c \in Digits THEN "9" ELSE "?"

ShapeOf(text) == [i \in 1..Len(text) |-> Kind(text[i])]

Rpt(c, n) == [i \in 1..n |-> c]

\* current LL99LLL, prefix L9LLL..L999LLL, suffix LLL9L..LLL999L, and the
\* two dateless forms
UKShapes ==
  {Rpt("L", 2) \o Rpt("9", 2) \o Rpt("L", 3)}
  \cup {Rpt("L", 1) \o Rpt("9", n) \o Rpt("L", 3) : n \in 1..3}
  \cup {Rpt("L", 3) \o Rpt("9", n) \o Rpt("L", 1) : n \in 1..3}
  \cup {Rpt("L", a) \o Rpt("9", b) : a \in 1..3, b \in 1..4}
  \cup {Rpt("9", b) \o Rpt("L", a) : a \in 1..3, b \in 1..4}

\* C19: sanitizeUKRegistration rejects "N/A" and every value whose
\* upper-cased, whitespace-free form has none of the five UK shapes; for every
\* other value it returns that form, with one space after the 4th character
\* when it is longer than 4.
C19_SanitizeUKPlate ==
  (fn = "sanitizeUKRegistration" /\ ret # None) =>
    LET value == arg.value
        out   == ret[1]
        plate == StripWhitespace(toUpperCase(value[1]))
    IN  /\ value = Some(<<"N","/","A">>) => out = None
        /\ (value = None \/ ShapeOf(plate) \notin UKShapes) => out = None
        /\ (value # None /\ ShapeOf(plate) \in UKShapes) =>
             out = Some(IF Len(plate) > 4
                        THEN SubSeq(plate, 1, 4) \o <<" ">> \o SubSeq(plate, 5, Len(plate))
                        ELSE plate)

C19_Witness ==
  /\ fn = "sanitizeUKRegistration"
  /\ arg.value = Some(<<"a","b","1","2","c","d","e">>)
  /\ ret = Some(Some(<<"A","B","1","2"," ","C","D","E">>))

\* 1 to 2 digits and an optional upper-case letter
GroupShapes == {<<"9">>, <<"9", "9">>, <<"9", "L">>, <<"9", "9", "L">>}

\* the standalone numbers of 1 to 2 digits in the text: place and length
EmbeddedNumbers(text) ==
  { e \in (DOMAIN text) \X (1..2) :
      /\ e[1] + e[2] - 1 <= Len(text)
      /\ \A m \in e[1]..(e[1] + e[2] - 1) : text[m] \in Digits
      /\ (e[1] = 1 \/ text[e[1] - 1] \notin WordChars)
      /\ (e[1] + e[2] - 1 = Len(text) \/ text[e[1] + e[2]] \notin WordChars) }

\* C20: sanitizeInsuranceGroup returns the upper-cased trimmed value when it
\* is 1 to 2 digits with an optional letter; otherwise it returns nothing but
\* a standalone number of 1 to 2 digits of the value that is at most 50, and
\* rejects when there is none; "32E" gives "32E", "not rated" is rejected,
\* and every returned value is 1 to 2 digits and an optional upper-case letter.
C20_SanitizeInsuranceGroup ==
  (fn = "sanitizeInsuranceGroup" /\ ret # None) =>
    LET value == arg.value
        out   == ret[1]
        text  == trim(value[1])
        numbers == {SubSeq(text, e[1], e[1] + e[2] - 1) : e \in EmbeddedNumbers(text)}
    IN  /\ value = None => out = None
        /\ value # None =>
             IF ShapeOf(toUpperCase(text)) \in GroupShapes
             THEN out = Some(toUpperCase(text))
             ELSE /\ out # None => out[1] \in numbers /\ parseInt(out[1]) <= 50
                  /\ numbers = {} => out = None
                  /\ (numbers # {} /\ \A n \in numbers : parseInt(n) <= 50) => out # None
        /\ value = Some(<<"3","2","E">>) => out = Some(<<"3","2","E">>)
        /\ value = Some(<<"n","o","t"," ","r","a","t","e","d">>) => out = None
        /\ out # None => ShapeOf(out[1]) \in GroupShapes

C20_Witness ==
  /\ fn = "sanitizeInsuranceGroup"
  /\ arg.value = Some(<<"G","r","o","u","p"," ","3","2"," ","(","o","f"," ","5","0",")">>)
  /\ ret = Some(Some(<<"3","2">>))

CurrencySymbols == {"£", "$", "€"}

\* C21: sanitizePrice accepts a value only if it holds a currency symbol or a
\* digit-comma sequence, holds no '<' and is at most 20 characters long after
\* cleanup (trimmed, '<' and '>' removed); every other value is rejected, and
\* every returned value holds neither '<' nor '>' and is at most 20
\* characters long.
C21_SanitizePrice ==
  (fn = "sanitizePrice" /\ ret # None) =>
    LET value == arg.value
        out   == ret[1]
        cleanup == SelectSeq(trim(value[1]), LAMBDA c : c \notin {"<", ">"})
        acceptable ==
          /\ value # None
          /\ \E i \in DOMAIN value[1] : value[1][i] \in CurrencySymbols \cup Digits \cup {","}
          /\ \A i \in DOMAIN value[1] : value[1][i] # "<"
          /\ Len(cleanup) <= 20
    IN  /\ ~acceptable => out = None
        /\ out # None =>
             /\ \A i \in DOMAIN out[1] : out[1][i] \notin {"<", ">"}
             /\ Len(out[1]) <= 20

C21_Witness ==
  /\ fn = "sanitizePrice"
  /\ arg.value = Some([i \in 1..20 |-> "9"] \o <<">">>)
  /\ ret = Some(Some([i \in 1..20 |-> "9"]))

\* the places where digits, optional whitespace and then "cc" stand in the
\* text: the first and the last digit
CcFigures(text) ==
  { f \in (DOMAIN text) \X (DOMAIN text) :
      /\ f[1] <= f[2]
      /\ \A k \in f[1]..f[2] : text[k] \in Digits
      /\ f[1] = 1 \/ text[f[1] - 1] \notin Digits
      /\ \E c \in (f[2] + 1)..(Len(text) - 1) :
           /\ \A k \in (f[2] + 1)..(c - 1) : text[k] \in Whitespace
           /\ text[c] \in {"c", "C"} /\ text[c + 1] \in {"c", "C"} }

\* a digit or a dot, optional whitespace and then "l" stand in the text
HasLitreFigure(text) ==
  \E i \in DOMAIN text : \E c \in (i + 1)..Len(text) :
    /\ text[i] \in Digits \cup {"."}
    /\ \A k \in (i + 1)..(c - 1) : text[k] \in Whitespace
    /\ text[c] \in {"l", "L"}

\* C27 as claimed: the engine capacity of a vehicle record built from
\* scraped data is an integer number of cc: the digits before "cc" when the
\* text has an "NNNcc" figure ("1998cc" gives 1998), litres times 1000 when it
\* has an "N.Nl" figure ("2.0L" gives 2000), and 0 for every text that is
\* absent or has neither figure.
C27_EngineCapacityInteger ==
  (fn = "buildVehicleFromScraped" /\ ret # None) =>
    LET engineSize == arg.scraped.engineSize
        capacity   == ret[1].engineCapacity
    IN  /\ ~capacity.nan
        /\ engineSize = Some(<<"1","9","9","8","c","c">>) => capacity.n = 1998
        /\ engineSize = Some(<<"2",".","0","L">>) => capacity.n = 2000
        /\ engineSize = None => capacity.n = 0
        /\ (engineSize # None /\ CcFigures(engineSize[1]) # {}) =>
             \E f \in CcFigures(engineSize[1]) :
               capacity.n = parseInt(SubSeq(engineSize[1], f[1], f[2]))
        /\ (engineSize # None /\ CcFigures(engineSize[1]) = {}
                              /\ ~HasLitreFigure(engineSize[1])) => capacity.n = 0

\* C22 as claimed: in every UK-branch lookup the inspection history is
\* fetched by the official fetcher (getMOTHistory) when its credentials are
\* configured, and by the fixture (getMockMOTHistory) only when they are not.
C22_OfficialHistoryWhenConfigured ==
  promises # <<>> =>
    promises[2].fetcher = (IF MOT_CREDENTIALS THEN "getMOTHistory" ELSE "getMockMOTHistory")

MostRecentFirst(tests) ==
  \A i \in 1..(Len(tests) - 1) : tests[i].completedDate >= tests[i + 1].completedDate

\* C26 as claimed: every inspection history in a result returned by
\* getVehicleInfo has its tests ordered most-recent-first: completion dates
\* never increase along the sequence.
C26_HistoryMostRecentFirst ==
  (result # None /\ result[1].motHistory # None) =>
    MostRecentFirst(result[1].motHistory[1].motTests)

IomLookup == calls["scrapeIOMVehicle"] > 0

\* C28: in the Isle-of-Man branch no UK fetcher is called while the
\* Isle-of-Man fetch is pending; the UK cross-reference is dispatched only
\* after that fetch has returned a record with make; and once it is
\* dispatched the result is produced only after every fetch of the
\* cross-reference has completed.
C28_CrossReferenceIsSecondStage ==
  IomLookup =>
    /\ pc = "iomAwait" => (promises = <<>> /\ \A f \in UKFetchers : calls[f] = 0)
    /\ (\E f \in UKFetchers : calls[f] > 0) =>
         /\ stage = "xref"
         /\ iomData # None
         /\ Get(iomData[1], "make") # None
    /\ (stage = "xref" /\ result # None) =>
         /\ inflight = {}
         /\ \A i \in DOMAIN slots : slots[i].done
         /\ Len(arrival) = Len(promises)

C28_Witness ==
  /\ IomLookup
  /\ stage = "xref"
  /\ pc = "done"
  /\ result # None
  /\ result[1].ukVehicle # None
  /\ Len(arrival) = 3

ScraperRun == fetcher = "scrapeTotalCarCheck"

\* C24 as claimed: any two requests the scraper sends, whichever callers they
\* serve and however the callers overlap, are at least MIN_REQUEST_INTERVAL
\* apart.
C24_Original ==
  ScraperRun =>
    \A c, d \in 1..MaxCallers :
      (c # d /\ callers[c].issuedAt # None /\ callers[d].issuedAt # None) =>
        \/ callers[c].issuedAt[1] - callers[d].issuedAt[1] >= MIN_REQUEST_INTERVAL
        \/ callers[d].issuedAt[1] - callers[c].issuedAt[1] >= MIN_REQUEST_INTERVAL

\* caller d called for the plate of caller c after c was answered and less
\* than the time to live of the fetcher's cache later
CalledWithinTTL(c, d) ==
  /\ callers[c].answeredAt # None
  /\ callers[d].startedAt # None
  /\ callers[d].plate = callers[c].plate
  /\ callers[d].startedAt[1] > callers[c].answeredAt[1]
  /\ callers[d].startedAt[1] - callers[c].answeredAt[1] < CacheTTL(fetcher)

\* the not-found answers of fetcher f are cached: a call for the same plate
\* within the time to live is answered from the cache, without a request
NegativeCached(f) ==
  fetcher = f =>
    \A c, d \in 1..MaxCallers :
      (callers[c].outcome = "notFound" /\ CalledWithinTTL(c, d)) =>
        /\ callers[d].fromCache
        /\ callers[d].issuedAt = None
        /\ callers[d].result = callers[c].result

\* C23 as claimed: the cache of the registry fetcher, of the third-party
\* scraper, of the Isle-of-Man fetcher and of the insurance checker stores
\* not-found results, so that a second lookup of the plate within the time
\* to live is answered from the cache without a request.
C23_NegativeResultsCached == \A f \in CachingFetchers : NegativeCached(f)

\* C25: no call of a fetcher (registry, inspection history, scraper,
\* Isle-of-Man, insurance, fixture) ends with an exception: whatever fails
\* inside it, the call returns.
C25_NoExceptionEscapes ==
  \A c \in 1..MaxCallers :
    /\ ~callers[c].threw
    /\ callers[c].pc = "done" => callers[c].result # None

C25_Witness ==
  /\ fetcher = "getMOTHistory"
  /\ \E c, d \in 1..MaxCallers :
       /\ callers[c].pc = "done" /\ callers[c].outcome = "token"
       /\ callers[c].result = Some(None)
       /\ callers[d].pc = "done" /\ callers[d].outcome = "badBody"
       /\ callers[d].result = Some(None)

\* the call of caller c found an entry younger than the time to live
FoundFresh(c) ==
  /\ callers[c].cached # None
  /\ callers[c].startedAt[1] - callers[c].cached[1].timestamp < CacheTTL(fetcher)

\* the call of caller c was answered from the entry it found, without a request
AnsweredFromCache(c) ==
  /\ callers[c].pc = "done"
  /\ callers[c].fromCache
  /\ callers[c].issuedAt = None
  /\ callers[c].result = Some(callers[c].cached[1].data)

\* the call of caller c consults the source, and once the source has
\* answered with a record the plate has an entry with a timestamp not older
\* than the answer (a later answer for the plate may have replaced the data)
ConsultsSource(c) ==
  /\ ~callers[c].fromCache
  /\ callers[c].pc = "sleeping" \/ callers[c].issuedAt # None
  /\ callers[c].outcome = "found" =>
       LET entry == cache[fetcher][callers[c].plate]
       IN  /\ entry # None
           /\ entry[1].timestamp >= callers[c].answeredAt[1]

\* C29 as claimed: a lookup that finds an entry younger than the time to
\* live returns the cached value without a request; every other lookup
\* consults the source again and, when the source answers with a record,
\* replaces the entry with a fresh timestamp.
C29_Original ==
  fetcher \in CachingFetchers =>
    \A c \in 1..MaxCallers :
      callers[c].startedAt # None =>
        IF FoundFresh(c) THEN AnsweredFromCache(c) ELSE ConsultsSource(c)

\* C29: a lookup that finds an entry younger than the time to live returns
\* the cached value without a request; every other lookup by a fetcher whose
\* key is configured consults the source again and, when the source answers
\* with a record, replaces the entry with a fresh timestamp.
C29_CacheTTL ==
  fetcher \in CachingFetchers =>
    \A c \in 1..MaxCallers :
      callers[c].startedAt # None =>
        IF FoundFresh(c) THEN AnsweredFromCache(c)
        ELSE configured => ConsultsSource(c)

\* one call is answered from an entry half a second short of the time to
\* live, the next call finds the entry exactly that old and asks the source
C29_Witness ==
  /\ ScraperRun
  /\ \E c, d \in 1..MaxCallers :
       /\ callers[c].fromCache
       /\ callers[c].startedAt[1] - callers[c].cached[1].timestamp = CACHE_TTL - 500
       /\ callers[d].cached # None
       /\ callers[d].startedAt[1] - callers[d].cached[1].timestamp = CACHE_TTL
       /\ callers[d].outcome = "found"
       /\ cache[fetcher][callers[d].plate][1].timestamp = callers[d].answeredAt[1]

\* token is within 60 seconds of its expiry, or expired, at time t
NearExpiry(token, t) == token[1].expiresAt - t <= TokenExpiryBuffer

ScrapedHasManufacturer ==
  /\ FetchedValues[3] # None
  /\ Get(FetchedValues[3][1], "manufacturer") # None

\* C31: the vehicle a UK lookup returns is the record of the registry or of
\* the fixtures, unchanged, whenever that fetcher returned one; it is built
\* from the scraped record exactly when that fetcher returned none and the
\* scraped record has a manufacturer; otherwise it is absent.
C31_SynthesisOnlyWithoutAuthoritative ==
  ukInfo # None =>
    IF FetchedValues[1] # None
    THEN ukInfo[1].vehicle = FetchedValues[1]
    ELSE IF ScrapedHasManufacturer
    THEN /\ ukInfo[1].vehicle # None
         /\ ukInfo[1].vehicle[1].src = "scraped"
         /\ ukInfo[1].vehicle[1].make = FetchedValues[3][1].manufacturer[1]
    ELSE ukInfo[1].vehicle = None

\* the registry and the scraper both returned a record
C31_Witness ==
  /\ ukInfo # None
  /\ FetchedValues[1] # None
  /\ ScrapedHasManufacturer
  /\ ukInfo[1].vehicle = FetchedValues[1]
  /\ ukInfo[1].vehicle[1].src = "dvla"

\* the scraped text contains word, in whatever case
Contains(text, word) == text # None /\ includes(toLowerCase(text[1]), word)

\* C32 as claimed: buildVehicleFromScraped maps the scraped MOT status to
\* 'Valid' when the text contains "valid", or "expires" without "expired", to
\* 'Not valid' when it contains "expired" or "not valid", and to 'No details
\* held by DVLA' in every other case.
C32_MotStatusMapping ==
  (fn = "buildVehicleFromScraped" /\ ret # None) =>
    LET text == arg.scraped.motStatus
        saysValid == \/ Contains(text, <<"v","a","l","i","d">>)
                     \/ Contains(text, <<"e","x","p","i","r","e","s">>) /\ ~Contains(text, <<"e","x","p","i","r","e","d">>)
        saysNotValid == Contains(text, <<"e","x","p","i","r","e","d">>) \/ Contains(text, <<"n","o","t"," ","v","a","l","i","d">>)
    IN  /\ saysValid => ret[1].motStatus = "Valid"
        /\ saysNotValid => ret[1].motStatus = "Not valid"
        /\ (~saysValid /\ ~saysNotValid) => ret[1].motStatus = "No details held by DVLA"

\* scrapeIOMVehicle returned a record with make and getVehicleInfo has returned
IomRecordWithMake == pc = "done" /\ iomData # None /\ ~LacksMake(iomData[1])

\* C37: once scrapeIOMVehicle has returned a record with make, the result of
\* the lookup is a success with the Isle-of-Man record as vehicle and with
\* extras, whatever the cross-reference yields; when the nested UK lookup
\* ends in 'not found' or in its generic error, that error is not in the
\* result, and motHistory and ukVehicle are absent.
C37_CrossReferenceErrorDropped ==
  IomRecordWithMake =>
    /\ result # None
    /\ result[1].error = None
    /\ result[1].isManx
    /\ result[1].vehicle = Some(iomToVehicleData(iomData[1]))
    /\ result[1].extras # None
    /\ (ukInfo # None /\ ukInfo[1].error # None) =>
         /\ ukInfo[1].error \in {Some(MsgUkNotFound), Some(MsgUkGeneric)}
         /\ result[1].motHistory = None
         /\ result[1].ukVehicle = None
         /\ result[1].extras[1].sources = <<"gov.im">>

\* the nested UK lookup found nothing for the previous registration
C37_Witness ==
  /\ IomRecordWithMake
  /\ stage = "xref"
  /\ ukInfo # None
  /\ ukInfo[1].error = Some(MsgUkNotFound)
  /\ result[1].error = None
  /\ result[1].vehicle # None

\* the call of caller c could not consult the registry: the key is missing,
\* the request failed in the network, or its answer was not a 2xx
RegistryNotConsulted(c) ==
  /\ callers[c].pc = "done"
  /\ ~callers[c].fromCache
  /\ ~configured \/ callers[c].outcome \in {"networkError", "httpError"}

\* C33 as claimed: scrapeIOMVehicle returns no record at all, never a
\* partial one, whenever the registry could not be consulted: the key is not
\* configured, the network fails, or the answer to the query is not a 2xx.
C33_UnavailableIsNoRecord ==
  fetcher = "scrapeIOMVehicle" =>
    \A c \in 1..MaxCallers : RegistryNotConsulted(c) => callers[c].result = Some(None)

\* C34: within one getVehicleInfo call no fetcher is invoked a second time,
\* whatever the fetches yield: the Isle-of-Man fetcher is invoked at most
\* once, and the registry or the fixtures (one of the two), the inspection
\* history and the scraper each at most once, for the one UK plate looked up.
C34_NoRetries ==
  /\ \A f \in Fetchers : calls[f] <= 1
  /\ calls["getDVLAVehicle"] + calls["getMockVehicleData"] <= 1
  /\ Len(promises) <= 3
  /\ \A i, j \in DOMAIN promises :
       /\ promises[i].arg = promises[j].arg
       /\ i # j => promises[i].fetcher # promises[j].fetcher

\* a lookup in which a fetch failed and a fetch found nothing has returned,
\* and each fetcher of the branch was invoked once
C34_Witness ==
  /\ pc = "done"
  /\ stage = "xref"
  /\ failed
  /\ calls["scrapeIOMVehicle"] = 1
  /\ calls["getDVLAVehicle"] = 1
  /\ calls["getMockMOTHistory"] = 1
  /\ calls["scrapeTotalCarCheck"] = 1
  /\ upstream.dvla = "unavailable"

\* the previous registration the Isle-of-Man record of the lookup carries
PreviousOfLookup == Get(iomData[1], "previousUKRegistration")

\* C39: the cross-reference runs the UK branch for the previous
\* registration, also when that registration matches an Isle-of-Man
\* pattern: its fetches are those of getUKVehicleInfo for that registration,
\* the Isle-of-Man fetcher is invoked once in the whole lookup, and the
\* lookup has at most the Isle-of-Man stage and one UK fan-out.
C39_CrossReferenceIsUkBranch ==
  /\ calls["scrapeIOMVehicle"] <= 1
  /\ \A f \in UKFetchers : calls[f] <= 1
  /\ stage = "xref" =>
       /\ calls["scrapeIOMVehicle"] = 1
       /\ pc \in {"ukAwait", "done"}
       /\ Len(promises) = 3
       /\ \A i \in DOMAIN promises :
            /\ promises[i].fetcher \in UKFetchers
            /\ promises[i].arg = StripWhitespace(PreviousOfLookup[1])

\* the cross-reference for a previous registration that is itself an
\* Isle-of-Man plate has returned
C39_Witness ==
  /\ stage = "xref"
  /\ pc = "done"
  /\ isManxPlate(PreviousOfLookup[1])
  /\ calls["scrapeIOMVehicle"] = 1
  /\ calls["scrapeTotalCarCheck"] = 1
  /\ result # None
  /\ result[1].isManx

\* the plate upper-cased, without whitespace and hyphens
Cleaned(raw) == SelectSeq(toUpperCase(raw), LAMBDA c : c \notin Whitespace \cup {"-"})

\* letters, then digits, then at most one letter
LettersDigitsSuffix(clean) ==
  \E a \in 1..Len(clean) : \E b \in (a + 1)..Len(clean) :
    /\ \A k \in 1..a : clean[k] \in Letters
    /\ \A k \in (a + 1)..b : clean[k] \in Digits
    /\ b = Len(clean) \/ (b + 1 = Len(clean) /\ clean[Len(clean)] \in Letters)

\* digits, then MN, then digits
NumericMN(clean) ==
  \E a \in 1..(Len(clean) - 3) :
    /\ \A k \in 1..a : clean[k] \in Digits
    /\ clean[a + 1] = "M" /\ clean[a + 2] = "N"
    /\ \A k \in (a + 3)..Len(clean) : clean[k] \in Digits

\* text with a space in the place of every hyphen
HyphensToSpaces(text) == [i \in DOMAIN text |-> IF text[i] = "-" THEN " " ELSE text[i]]

\* C35 as claimed: for every Isle-of-Man plate, the numeric DIGITS-MN-DIGITS
\* plates included, the display form is the registry-query form with a
\* space in the place of each hyphen, and formatting the display form for
\* the registry gives the registry-query form again.
C35_DisplayInvertsQueryForm ==
  (fn = "formatManxPlateForDisplay" /\ ret # None
     /\ (MatchesManxPattern(arg.registration) \/ NumericMN(Cleaned(arg.registration)))) =>
    /\ ret[1] = HyphensToSpaces(formatManxPlateForApi(arg.registration))
    /\ formatManxPlateForApi(ret[1]) = formatManxPlateForApi(arg.registration)

\* C36 as claimed: for every raw value that matches neither the
\* letters-digits-suffix pattern nor the numeric MN pattern, the
\* registry-query form and the display form are both the cleaned value:
\* upper-cased, without whitespace and hyphens.
C36_UnrecognizedReturnedCleaned ==
  (fn \in {"formatManxPlateForApi", "formatManxPlateForDisplay"} /\ ret # None
     /\ ~LettersDigitsSuffix(Cleaned(arg.registration))
     /\ ~NumericMN(Cleaned(arg.registration))) =>
    ret[1] = Cleaned(arg.registration)

\* the call of caller c got a record or the not-found answer of the source
\* for plate p
Answered(c, p) ==
  /\ callers[c].plate = p
  /\ callers[c].outcome \in {"found", "notFound"}

\* the call of caller c ended without the source being consulted with
\* success: no key, no connection, an answer that is not a 2xx (and not the
\* 404 of the registry), an error of the remote function, an unreadable body
Unavailable(c) ==
  /\ callers[c].pc = "done"
  /\ ~callers[c].fromCache
  /\ callers[c].outcome \in {"none", "networkError", "httpError", "functionError", "badBody"}

C24_RequestsSpacedApart ==
  ScraperRun =>
    \A c \in 1..MaxCallers :
      callers[c].issuedAt # None =>
        /\ callers[c].issuedAt[1] - callers[c].lastSeen[1] >= MIN_REQUEST_INTERVAL
        /\ \A d \in 1..MaxCallers :
             (callers[d].issuedAt # None
                /\ callers[d].issuedAt[1] <= callers[c].lastSeen[1]) =>
               callers[c].issuedAt[1] - callers[d].issuedAt[1] >= MIN_REQUEST_INTERVAL

\* two calls arrived during the same interval, read the same request time,
\* waited, and sent their requests together
C24_Witness ==
  /\ ScraperRun
  /\ \E c, d \in 1..MaxCallers :
       /\ c # d
       /\ callers[c].wake # None /\ callers[d].wake # None
       /\ callers[c].issuedAt # None /\ callers[d].issuedAt # None
       /\ callers[c].lastSeen = callers[d].lastSeen
       /\ callers[c].issuedAt = callers[d].issuedAt
       /\ callers[c].issuedAt[1] = callers[c].lastSeen[1] + MIN_REQUEST_INTERVAL

====
